---- MODULE Spec2Model ----
(***************************************************************************)
(* A model of netstats_core: the metrics aggregator (metrics.rs), the      *)
(* packet codec (packet.rs) and the send/receive engine and role           *)
(* dispatcher (network.rs).                                                *)
(*                                                                         *)
(* Time is counted in whole seconds (the variable now); an elapsed time in *)
(* milliseconds is 1000 * (now - start).  Option<T> is a sequence: <<>> is *)
(* None and <<x>> is Some(x).                                              *)
(***************************************************************************)
EXTENDS Integers, Sequences, FiniteSets, TLC

VARIABLES
    now,        \* the monotonic clock (Instant::now()), in seconds
    m,          \* SpecMetrics: one TestMetrics value driven through its API
    ops,        \* SpecMetrics: number of API calls made so far
    takeArgs,   \* SpecMetrics: the arguments of the take_bandwidth_sample calls, in call order
    call,       \* SpecMetrics: the last API call made, <<name, arguments...>> (<<>> before the first)
    before,     \* SpecMetrics: the TestMetrics value that call was made on
    loss,       \* SpecMetrics: what the last packet_loss_percentage() returned (None before the first)
    rmode,      \* SpecRun: the (role, protocol, sub-mode) cell of run_network_test
    rpc,        \* SpecRun: where run_network_test is: "setup", "joining", "done"
    loops,      \* SpecRun: the state of each send/receive loop future
    handles,    \* SpecRun: the state of the two tasks spawned in DualStream mode
    failures,   \* SpecRun: the steps that ended with Err, in the order they did
    result,     \* SpecRun: what run_network_test returned
    cfg,        \* Spec: the TestConfig shared by the client run and the server run
    build,      \* Spec: the build profile: "debug" (overflow checks on) or "release"
    cpc,        \* Spec: where the client run is
    cstart,     \* Spec: the client's test_start_time (seconds)
    cseq,       \* Spec: the client's sequence_number
    cnext,      \* Spec: the deadline of the client ticker's next tick (seconds)
    cm,         \* Spec: the client's TestMetrics
    cres,       \* Spec: what the client's run_network_test returned
    spc,        \* Spec: where the server run is
    sm,         \* Spec: the server's TestMetrics
    sres,       \* Spec: what the server's run_network_test returned
    sexit,      \* Spec: which statement ended the server's receive loop
    snext,      \* Spec: the deadline of the bandwidth sampler's next tick (seconds)
    rpos,       \* Spec: how many bytes of the stream completed reads have consumed
    packet_len, \* Spec: the length prefix of the frame whose body is being read
    buf_len,    \* Spec: packet_buffer.len()
    buf_cap,    \* Spec: packet_buffer.capacity()
    counted,    \* Spec: <<offset, length>> of each frame body the server counted
    wire,       \* Spec: the frames the client wrote to the TCP stream, in order
    avail,      \* Spec: how many bytes of the stream have reached the server's socket
    fin,        \* Spec: the client's end-of-stream has reached the server's socket
    rst,        \* Spec: the network has reset the connection
    c2s,        \* Spec: the datagrams sent to the server and neither lost nor received yet
    s2c,        \* Spec: the datagrams sent to the client and neither lost nor received yet
    highest,    \* Spec: highest_udp_seq_received
    uerr,       \* Spec: the error the server's next recv_from reports ("none" if none)
    replies,    \* Spec: how many times udp_receive_loop has called socket.send_to
    p_in,       \* SpecCodec: the CustomPacket handed to to_bytes (<<>> before it is chosen)
    p_bytes,    \* SpecCodec: the bytes to_bytes returned (<<>> before the call)
    p_out,      \* SpecCodec: what from_bytes returned for them (<<>> before the call)
    peer_cfg,   \* SpecSingle: each peer's host address and its TestConfig target
    peer_pc,    \* SpecSingle: where each peer's SingleStream branch is
    should_initiate_connection, \* SpecSingle: each peer's value of it (None before line 209)
    streams,    \* SpecSingle: the established connections, <<connecting peer, listening peer>>
    lk_m,       \* SpecLock: the TestMetrics inside the run's Mutex
    lk_holder,  \* SpecLock: the task holding the MutexGuard (None if the mutex is free)
    lk_poisoned,\* SpecLock: a task has panicked while holding the guard
    lk_pc,      \* SpecLock: where each task is: [k |-> "lock" | "hold" | "await" | "done" | "panicked", s |-> source line]
    lk_guard,   \* SpecLock: per task, the TestMetrics its guard dereferenced to when it was acquired
    lk_iter,    \* SpecLock: per task, the loop iterations begun
    lk_calls,   \* SpecLock: the record_packet_sent / record_packet_received calls made, and their bytes
    pace        \* SpecPace: a udp_send_loop alone with its clock in milliseconds (<<>> elsewhere)

metricsVars == <<m, ops, takeArgs, call, before, loss>>

runVars == <<rmode, rpc, loops, handles, failures, result>>

clientVars == <<cpc, cstart, cseq, cnext, cm, cres>>

serverVars == <<spc, sm, sres, sexit, snext, rpos, packet_len, buf_len, buf_cap, counted>>

tcpVars == <<wire, avail, fin, rst>>

udpVars == <<c2s, s2c, highest, uerr, replies>>

netVars == <<cfg, build, clientVars, serverVars, tcpVars, udpVars>>

codecVars == <<p_in, p_bytes, p_out>>

singleVars == <<peer_cfg, peer_pc, should_initiate_connection, streams>>

lockVars == <<lk_m, lk_holder, lk_poisoned, lk_pc, lk_guard, lk_iter, lk_calls>>

paceVars == <<pace>>

vars == <<now, metricsVars, runVars, netVars, codecVars, singleVars, lockVars, paceVars>>

\* what an action of SpecMetrics leaves alone
notMetrics == <<runVars, netVars, codecVars, singleVars, lockVars, paceVars>>

\* what an action of SpecRun leaves alone
notRun == <<now, metricsVars, netVars, codecVars, singleVars, lockVars, paceVars>>

\* what an action of Spec leaves alone
notNet == <<metricsVars, runVars, codecVars, singleVars, lockVars, paceVars>>

\* what an action of Spec on the TCP stream leaves alone
notTcp == <<metricsVars, runVars, codecVars, singleVars, lockVars, paceVars, udpVars>>

\* what an action of Spec on the UDP sockets leaves alone
notUdp == <<metricsVars, runVars, codecVars, singleVars, lockVars, paceVars, tcpVars, rpos, packet_len, buf_len, buf_cap, counted>>

----------------------------------------------------------------------------
(* Bounds of the model *)

\* the number of aggregator calls explored by SpecMetrics
MaxOps == 4

\* the last clock reading (seconds) explored by SpecMetrics
MaxNow == 2

----------------------------------------------------------------------------
(* Option<T> *)

None == <<>>

Some(x) == <<x>>

is_none(o) == o = <<>>

is_some(o) == o # <<>>

unwrap(o) == o[1]

unwrap_or(o, d) == IF o = <<>> THEN d ELSE o[1]

Min(a, b) == IF a <= b THEN a ELSE b

Max(a, b) == IF a >= b THEN a ELSE b

\* Instant::now().duration_since(st).as_millis() with the clock in seconds
ElapsedMs(t, st) == 1000 * (t - st)

----------------------------------------------------------------------------
(* metrics.rs: TestMetrics *)

\* TestMetrics::new() / Default::default()
NewMetrics ==
    [ packets_sent |-> 0, packets_received |-> 0,
      bytes_sent |-> 0, bytes_received |-> 0,
      total_rtt_micros |-> 0, rtt_count |-> 0,
      min_rtt_micros |-> None, max_rtt_micros |-> None,
      inter_arrival_jitter_micros_sum |-> 0, jitter_count |-> 0,
      bandwidth_samples |-> <<>>,
      last_bandwidth_sample_time_ms |-> None,
      bytes_since_last_bandwidth_sample |-> 0,
      test_start_time |-> None,
      last_rtt_micros |-> None,
      anomalies |-> <<>>,
      latency_spike_threshold_micros |-> None,
      jitter_spike_threshold_micros |-> None,
      out_of_order_count |-> 0 ]

\* an AnomalyEvent; the description carries the number it formats
AnomalyEvent(ts, type, value) ==
    [timestamp_ms |-> ts, anomaly_type |-> type, description |-> value]

\* config.latency_spike_threshold_ms / jitter_spike_threshold_ms, Option<u64> in ms
configure_anomaly_detection(mt, latency_ms, jitter_ms) ==
    [mt EXCEPT
        !.latency_spike_threshold_micros =
            IF is_some(latency_ms) THEN Some(unwrap(latency_ms) * 1000) ELSE None,
        !.jitter_spike_threshold_micros =
            IF is_some(jitter_ms) THEN Some(unwrap(jitter_ms) * 1000) ELSE None]

\* the mutant of init_start_time: every call restarts the clock
init_start_time_always(mt, t) ==
    [mt EXCEPT !.test_start_time = Some(t),
               !.last_bandwidth_sample_time_ms = Some(0),
               !.bytes_since_last_bandwidth_sample = 0]

init_start_time(mt, t) ==
    IF is_none(mt.test_start_time)
    THEN [mt EXCEPT !.test_start_time = Some(t),
                    !.last_bandwidth_sample_time_ms = Some(0),
                    !.bytes_since_last_bandwidth_sample = 0]
    ELSE mt

\* the mutant of record_packet_sent: the packet is not counted
record_packet_sent_bytes_only(mt, size_bytes, t) ==
    LET m1 == init_start_time(mt, t)
    IN  [m1 EXCEPT !.bytes_sent = @ + size_bytes]

record_packet_sent(mt, size_bytes, t) ==
    LET m1 == init_start_time(mt, t)
    IN  [m1 EXCEPT !.packets_sent = @ + 1,
                   !.bytes_sent = @ + size_bytes]

\* the elapsed-ms an anomaly is stamped with: test_start_time.map_or(0, ...)
AnomalyTimeMs(mt, t) ==
    IF is_some(mt.test_start_time) THEN ElapsedMs(t, unwrap(mt.test_start_time)) ELSE 0

\* the mutant of Exceeds: a sample equal to the threshold counts as a spike
ExceedsOrEquals(sample_micros, threshold) ==
    is_some(threshold) /\ sample_micros >= unwrap(threshold)

\* `if let Some(threshold_micros) = threshold { if sample > threshold_micros {..} }`
Exceeds(sample_micros, threshold) ==
    is_some(threshold) /\ sample_micros > unwrap(threshold)

record_jitter_value(mt, jitter_sample_micros, t) ==
    LET m1 == init_start_time(mt, t)
        m2 == [m1 EXCEPT !.inter_arrival_jitter_micros_sum = @ + jitter_sample_micros,
                         !.jitter_count = @ + 1]
    IN  IF Exceeds(jitter_sample_micros, m2.jitter_spike_threshold_micros)
        THEN [m2 EXCEPT !.anomalies =
                 Append(@, AnomalyEvent(AnomalyTimeMs(m2, t), "JitterSpike", jitter_sample_micros))]
        ELSE m2

\* the mutant of RttMin: the minimum is overwritten by the newest sample
RttMinLatest(old, rtt_micros) == Some(rtt_micros)

\* min_rtt_micros.map_or(rtt_micros, |min| min.min(rtt_micros))
RttMin(old, rtt_micros) ==
    Some(IF is_some(old) THEN Min(unwrap(old), rtt_micros) ELSE rtt_micros)

\* max_rtt_micros.map_or(rtt_micros, |max| max.max(rtt_micros))
RttMax(old, rtt_micros) ==
    Some(IF is_some(old) THEN Max(unwrap(old), rtt_micros) ELSE rtt_micros)

\* the mutant of record_packet_received: the RTT statistics are updated
\* whatever rtt_micros is
record_packet_received_rtt_always(mt, size_bytes, rtt_micros, t) ==
    LET m1 == init_start_time(mt, t)
        m2 == [m1 EXCEPT !.packets_received = @ + 1,
                         !.bytes_received = @ + size_bytes,
                         !.bytes_since_last_bandwidth_sample = @ + size_bytes]
        m3 == [m2 EXCEPT !.total_rtt_micros = @ + rtt_micros,
                         !.rtt_count = @ + 1,
                         !.min_rtt_micros = Some(IF is_some(@) THEN Min(unwrap(@), rtt_micros)
                                                               ELSE rtt_micros),
                         !.max_rtt_micros = Some(IF is_some(@) THEN Max(unwrap(@), rtt_micros)
                                                               ELSE rtt_micros)]
    IN  [m3 EXCEPT !.last_rtt_micros = Some(rtt_micros)]

\* the mutant of record_packet_received: the packet is counted as sent too
record_packet_received_and_sent(mt, size_bytes, rtt_micros, t) ==
    LET m1 == init_start_time(mt, t)
    IN  [m1 EXCEPT !.packets_received = @ + 1,
                   !.bytes_received = @ + size_bytes,
                   !.bytes_since_last_bandwidth_sample = @ + size_bytes,
                   !.packets_sent = @ + 1,
                   !.bytes_sent = @ + size_bytes]

\* the mutant of JitterSample: a falling RTT contributes a zero sample
JitterSampleRisingOnly(rtt_micros, last_rtt) ==
    IF rtt_micros >= last_rtt THEN rtt_micros - last_rtt ELSE 0

\* if rtt_micros >= last_rtt { rtt_micros - last_rtt } else { last_rtt - rtt_micros }
JitterSample(rtt_micros, last_rtt) ==
    IF rtt_micros >= last_rtt THEN rtt_micros - last_rtt ELSE last_rtt - rtt_micros

record_packet_received(mt, size_bytes, rtt_micros, t) ==
    LET m1 == init_start_time(mt, t)
        m2 == [m1 EXCEPT !.packets_received = @ + 1,
                         !.bytes_received = @ + size_bytes,
                         !.bytes_since_last_bandwidth_sample = @ + size_bytes]
        m3 == [m2 EXCEPT !.total_rtt_micros = @ + rtt_micros,
                         !.rtt_count = @ + 1,
                         !.min_rtt_micros = RttMin(@, rtt_micros),
                         !.max_rtt_micros = RttMax(@, rtt_micros)]
        m4 == IF is_some(m3.last_rtt_micros)
              THEN LET last_rtt == unwrap(m3.last_rtt_micros)
                       jitter_sample == JitterSample(rtt_micros, last_rtt)
                   IN  record_jitter_value(m3, jitter_sample, t)
              ELSE m3
        m5 == [m4 EXCEPT !.last_rtt_micros = Some(rtt_micros)]
        m6 == IF Exceeds(rtt_micros, m5.latency_spike_threshold_micros)
              THEN [m5 EXCEPT !.anomalies =
                       Append(@, AnomalyEvent(AnomalyTimeMs(m5, t), "HighLatencySpike", rtt_micros))]
              ELSE m5
    IN  IF rtt_micros > 0 THEN m6 ELSE m2

\* the mutant of SampleEntry: the sample is stamped with the length of the interval
SampleEntryInterval(sample_time, last_sample_time, bytes) ==
    <<IF sample_time >= last_sample_time THEN sample_time - last_sample_time ELSE 0, bytes>>

\* the pair pushed onto bandwidth_samples
SampleEntry(sample_time, last_sample_time, bytes) == <<sample_time, bytes>>

\* the mutant of take_bandwidth_sample: a sample is recorded only when bytes arrived
take_bandwidth_sample_if_bytes(mt, current_test_time_ms, t) ==
    LET m1 == IF is_none(mt.test_start_time) THEN init_start_time(mt, t) ELSE mt
        sample_time == current_test_time_ms
        last_sample_time == unwrap_or(m1.last_bandwidth_sample_time_ms, 0)
        m2 == IF m1.bytes_since_last_bandwidth_sample > 0
              THEN [m1 EXCEPT !.bandwidth_samples =
                       Append(@, SampleEntry(sample_time, last_sample_time,
                                             m1.bytes_since_last_bandwidth_sample))]
              ELSE m1
    IN  [m2 EXCEPT !.bytes_since_last_bandwidth_sample = 0,
                   !.last_bandwidth_sample_time_ms = Some(sample_time)]

\* the mutant of take_bandwidth_sample: the accumulator is not cleared
take_bandwidth_sample_no_reset(mt, current_test_time_ms, t) ==
    LET m1 == IF is_none(mt.test_start_time) THEN init_start_time(mt, t) ELSE mt
        sample_time == current_test_time_ms
        last_sample_time == unwrap_or(m1.last_bandwidth_sample_time_ms, 0)
        m2 == IF m1.bytes_since_last_bandwidth_sample > 0 \/ sample_time > last_sample_time
              THEN [m1 EXCEPT !.bandwidth_samples =
                       Append(@, SampleEntry(sample_time, last_sample_time,
                                             m1.bytes_since_last_bandwidth_sample))]
              ELSE m1
    IN  [m2 EXCEPT !.last_bandwidth_sample_time_ms = Some(sample_time)]

\* the mutant of take_bandwidth_sample: the sample is pushed on every call
take_bandwidth_sample_always(mt, current_test_time_ms, t) ==
    LET m1 == IF is_none(mt.test_start_time) THEN init_start_time(mt, t) ELSE mt
        sample_time == current_test_time_ms
        last_sample_time == unwrap_or(m1.last_bandwidth_sample_time_ms, 0)
        m2 == [m1 EXCEPT !.bandwidth_samples =
                  Append(@, SampleEntry(sample_time, last_sample_time,
                                        m1.bytes_since_last_bandwidth_sample))]
    IN  [m2 EXCEPT !.bytes_since_last_bandwidth_sample = 0,
                   !.last_bandwidth_sample_time_ms = Some(sample_time)]

take_bandwidth_sample(mt, current_test_time_ms, t) ==
    LET m1 == IF is_none(mt.test_start_time) THEN init_start_time(mt, t) ELSE mt
        sample_time == current_test_time_ms
        last_sample_time == unwrap_or(m1.last_bandwidth_sample_time_ms, 0)
        m2 == IF m1.bytes_since_last_bandwidth_sample > 0 \/ sample_time > last_sample_time
              THEN [m1 EXCEPT !.bandwidth_samples =
                       Append(@, SampleEntry(sample_time, last_sample_time,
                                             m1.bytes_since_last_bandwidth_sample))]
              ELSE m1
    IN  [m2 EXCEPT !.bytes_since_last_bandwidth_sample = 0,
                   !.last_bandwidth_sample_time_ms = Some(sample_time)]

\* an f64 result as the exact quotient num / den, den > 0
Ratio(num, den) == [num |-> num, den |-> den]

\* the mutant of packet_loss_percentage: a plain subtraction instead of saturating_sub
packet_loss_percentage_plain_sub(mt) ==
    IF mt.packets_sent = 0
    THEN Ratio(0, 1)
    ELSE Ratio((mt.packets_sent - mt.packets_received) * 100, mt.packets_sent)

\* (packets_sent.saturating_sub(packets_received) as f64 / packets_sent as f64) * 100.0
packet_loss_percentage(mt) ==
    IF mt.packets_sent = 0
    THEN Ratio(0, 1)
    ELSE LET lost == IF mt.packets_sent >= mt.packets_received
                     THEN mt.packets_sent - mt.packets_received
                     ELSE 0
         IN  Ratio(lost * 100, mt.packets_sent)

\* run_network_test lines 42-44: init_start_time and configure_anomaly_detection
RunStartMetrics(c, t) ==
    configure_anomaly_detection(init_start_time(NewMetrics, t),
                                c.latency_spike_threshold_ms, c.jitter_spike_threshold_ms)

----------------------------------------------------------------------------
(* SpecMetrics: the aggregator driven through its public operations, as    *)
(* the unit tests of metrics.rs drive it, with arguments from small sets.  *)

\* packet sizes in bytes
SizeArgs == {0, 64}

\* round-trip times in microseconds; 0 is the receiver-side "no RTT"
RttArgs == {0, 500, 1000, 5000}

\* thresholds in milliseconds
ThresholdArgs == {None, Some(1)}

\* elapsed-ms arguments of take_bandwidth_sample
TimeArgs == {0, 1000, 2000}

MetricsIdle ==
    /\ m = NewMetrics
    /\ ops = 0
    /\ takeArgs = <<>>
    /\ call = <<>>
    /\ before = NewMetrics
    /\ loss = None

RunIdle ==
    /\ rmode = "ClientUdp"
    /\ rpc = "done"
    /\ loops = <<>>
    /\ handles = <<>>
    /\ failures = <<>>
    /\ result = <<>>

NetIdle ==
    /\ cfg = <<>>
    /\ build = "none"
    /\ cpc = "idle" /\ cstart = 0 /\ cseq = 0 /\ cnext = 0 /\ cm = NewMetrics /\ cres = <<>>
    /\ spc = "idle" /\ sm = NewMetrics /\ sres = <<>> /\ sexit = "none" /\ snext = 0
    /\ rpos = 0 /\ packet_len = 0 /\ buf_len = 0 /\ buf_cap = 0 /\ counted = <<>>
    /\ wire = <<>> /\ avail = 0 /\ fin = FALSE /\ rst = FALSE
    /\ c2s = {} /\ s2c = {} /\ highest = <<>> /\ uerr = "none" /\ replies = 0

CodecIdle == p_in = <<>> /\ p_bytes = <<>> /\ p_out = <<>>

SingleIdle ==
    /\ peer_cfg = <<>>
    /\ peer_pc = <<>>
    /\ should_initiate_connection = <<>>
    /\ streams = {}

LockIdle ==
    /\ lk_m = NewMetrics
    /\ lk_holder = <<>>
    /\ lk_poisoned = FALSE
    /\ lk_pc = <<>>
    /\ lk_guard = <<>>
    /\ lk_iter = <<>>
    /\ lk_calls = <<>>

PaceIdle == pace = <<>>

MetricsInit ==
    /\ now = 0
    /\ MetricsIdle
    /\ RunIdle
    /\ NetIdle
    /\ CodecIdle
    /\ SingleIdle
    /\ LockIdle
    /\ PaceIdle

MInitStart ==
    /\ ops < MaxOps
    /\ m' = init_start_time(m, now)
    /\ call' = <<"init_start_time">>
    /\ before' = m
    /\ ops' = ops + 1
    /\ loss' = None
    /\ UNCHANGED <<now, takeArgs>>
    /\ UNCHANGED notMetrics

MConfigure ==
    /\ ops < MaxOps
    /\ \E l \in ThresholdArgs, j \in ThresholdArgs :
           /\ m' = configure_anomaly_detection(m, l, j)
           /\ call' = <<"configure_anomaly_detection", l, j>>
    /\ before' = m
    /\ ops' = ops + 1
    /\ loss' = None
    /\ UNCHANGED <<now, takeArgs>>
    /\ UNCHANGED notMetrics

MRecordSent ==
    /\ ops < MaxOps
    /\ \E s \in SizeArgs :
           /\ m' = record_packet_sent(m, s, now)
           /\ call' = <<"record_packet_sent", s>>
    /\ before' = m
    /\ ops' = ops + 1
    /\ loss' = None
    /\ UNCHANGED <<now, takeArgs>>
    /\ UNCHANGED notMetrics

MRecordReceived ==
    /\ ops < MaxOps
    /\ \E s \in SizeArgs, r \in RttArgs :
           /\ m' = record_packet_received(m, s, r, now)
           /\ call' = <<"record_packet_received", s, r>>
    /\ before' = m
    /\ ops' = ops + 1
    /\ loss' = None
    /\ UNCHANGED <<now, takeArgs>>
    /\ UNCHANGED notMetrics

MRecordJitter ==
    /\ ops < MaxOps
    /\ \E d \in RttArgs :
           /\ m' = record_jitter_value(m, d, now)
           /\ call' = <<"record_jitter_value", d>>
    /\ before' = m
    /\ ops' = ops + 1
    /\ loss' = None
    /\ UNCHANGED <<now, takeArgs>>
    /\ UNCHANGED notMetrics

MTakeSample ==
    /\ ops < MaxOps
    /\ \E e \in TimeArgs :
           /\ m' = take_bandwidth_sample(m, e, now)
           /\ takeArgs' = Append(takeArgs, e)
           /\ call' = <<"take_bandwidth_sample", e>>
    /\ before' = m
    /\ ops' = ops + 1
    /\ loss' = None
    /\ UNCHANGED now
    /\ UNCHANGED notMetrics

\* the read-only packet_loss_percentage()
MLossPercentage ==
    /\ ops < MaxOps
    /\ loss' = Some(packet_loss_percentage(m))
    /\ call' = <<"packet_loss_percentage">>
    /\ before' = m
    /\ ops' = ops + 1
    /\ UNCHANGED <<now, m, takeArgs>>
    /\ UNCHANGED notMetrics

MClock ==
    /\ now < MaxNow
    /\ now' = now + 1
    /\ UNCHANGED metricsVars
    /\ UNCHANGED notMetrics

MetricsNext ==
    \/ MInitStart
    \/ MConfigure
    \/ MRecordSent
    \/ MRecordReceived
    \/ MRecordJitter
    \/ MTakeSample
    \/ MLossPercentage
    \/ MClock

SpecMetrics == MetricsInit /\ [][MetricsNext]_vars

----------------------------------------------------------------------------
(* Properties of the aggregator *)

\* a sequence of numbers is non-decreasing in list order
NonDecreasing(s) == \A i \in 1..(Len(s) - 1) : s[i] <= s[i + 1]

\* the elapsed-ms column of bandwidth_samples
SampleTimes(mt) == [i \in 1..Len(mt.bandwidth_samples) |-> mt.bandwidth_samples[i][1]]

\* C7 as stated: after any sequence of aggregator operations the elapsed-ms
\* values of bandwidth_samples are non-decreasing in list order.
C7_SamplesNonDecreasing == NonDecreasing(SampleTimes(m))

\* C7 (amended): when every take_bandwidth_sample call is given an elapsed-ms
\* no smaller than the previous call's, the elapsed-ms values of
\* bandwidth_samples are non-decreasing in list order.
C7_SamplesNonDecreasingWhenCallsAre ==
    NonDecreasing(takeArgs) => NonDecreasing(SampleTimes(m))

\* C7 witness: three calls with non-decreasing arguments left at least two samples
C7_Witness ==
    /\ Len(takeArgs) >= 3
    /\ NonDecreasing(takeArgs)
    /\ Len(m.bandwidth_samples) >= 2
    /\ m.bandwidth_samples[1][1] < m.bandwidth_samples[2][1]

\* C8: with rtt_count >= 1, min_rtt and max_rtt are defined and
\* min_rtt * rtt_count <= total_rtt <= max_rtt * rtt_count.
C8_MinAvgMax ==
    m.rtt_count >= 1 =>
        /\ is_some(m.min_rtt_micros)
        /\ is_some(m.max_rtt_micros)
        /\ unwrap(m.min_rtt_micros) * m.rtt_count <= m.total_rtt_micros
        /\ m.total_rtt_micros <= unwrap(m.max_rtt_micros) * m.rtt_count

\* C8 witness: two different RTT samples were recorded, the larger one first
C8_Witness ==
    /\ m.rtt_count >= 2
    /\ is_some(m.min_rtt_micros)
    /\ is_some(m.max_rtt_micros)
    /\ unwrap(m.min_rtt_micros) < unwrap(m.max_rtt_micros)
    /\ m.last_rtt_micros = m.min_rtt_micros

----------------------------------------------------------------------------
(* SpecRun: run_network_test as the composition of its tasks.  The target  *)
(* address parses or not, a setup step (bind, connect, listen, accept) and *)
(* a loop end with Ok or Err as the I/O decides; what is modelled is how   *)
(* the dispatcher orders, awaits, joins and propagates those results.      *)

\* the packets the loops of one run record
MaxRunPackets == 2

\* the thresholds of the run's TestConfig
RunConfig == [latency_spike_threshold_ms |-> Some(1), jitter_spike_threshold_ms |-> None]

\* the mutant of StepAfter: the sockets are set up before the target is parsed
StepAfterSetupFirst(step) ==
    CASE step = "start" -> "setup"
      [] step = "setup" -> "parse"
      [] step = "parse" -> "joining"

\* the order of run_network_test: the metrics are initialised (lines 42-47), the
\* addresses are parsed (53-55, 75-77, 91-101), the sockets are set up, the loops run
StepAfter(step) ==
    CASE step = "start" -> "parse"
      [] step = "parse" -> "setup"
      [] step = "setup" -> "joining"

\* the cells whose target address comes from target_ip (the server cells parse
\* "0.0.0.0:<port>", which always succeeds)
ParsesTarget(mode) == mode \notin {"ServerUdp", "ServerTcp"}

\* the loops that send
SendLoops == {"send", "c_send", "s_send"}

\* the cells of the match on (test_mode, protocol, tcp_bidirectional_mode)
Modes == {"ClientUdp", "ClientTcp", "ServerUdp", "ServerTcp",
          "BidiUdp", "BidiDual", "BidiSingle"}

LoopIds == {"send", "recv", "c_send", "c_recv", "s_recv", "s_send"}

HandleIds == {"client", "server"}

\* the loops each cell runs
LoopsOf(mode) ==
    CASE mode \in {"ClientUdp", "ClientTcp"} -> {"send"}
      [] mode \in {"ServerUdp", "ServerTcp"} -> {"recv"}
      [] mode \in {"BidiUdp", "BidiSingle"} -> {"send", "recv"}
      [] mode = "BidiDual" -> {"c_send", "c_recv", "s_recv", "s_send"}

\* the two futures each DualStream task hands to try_join!
JoinedBy(h) == IF h = "client" THEN {"c_send", "c_recv"} ELSE {"s_recv", "s_send"}

HandleOf(l) == IF l \in {"c_send", "c_recv"} THEN "client" ELSE "server"

Ok == <<"Ok">>

Err(src) == <<"Err", src>>

\* what a panicked task leaves as its result
Panic == <<"Panic">>

RunInit ==
    /\ now = 0
    /\ MetricsIdle
    /\ NetIdle
    /\ CodecIdle
    /\ SingleIdle
    /\ LockIdle
    /\ PaceIdle
    /\ rmode \in Modes
    /\ rpc = "start"
    /\ loops = [l \in LoopIds |-> "none"]
    /\ handles = [h \in HandleIds |-> "none"]
    /\ failures = <<>>
    /\ result = <<>>

\* what a SpecRun action that writes the metrics leaves alone
notRunMetrics == <<now, ops, takeArgs, call, before, loss, netVars, codecVars, singleVars, lockVars, paceVars>>

\* lines 42-47: init_start_time and configure_anomaly_detection under the lock
RunStart ==
    /\ rpc = "start"
    /\ m' = RunStartMetrics(RunConfig, now)
    /\ rpc' = StepAfter("start")
    /\ UNCHANGED <<rmode, loops, handles, failures, result>>
    /\ UNCHANGED notRunMetrics

\* the target address does not parse: map_err(InvalidAddress) and `?` returns
RunInvalidAddress ==
    /\ rpc = "parse"
    /\ ParsesTarget(rmode)
    /\ result' = Err("InvalidAddress")
    /\ rpc' = "done"
    /\ UNCHANGED <<rmode, loops, handles, failures>>
    /\ UNCHANGED notRun

\* the addresses parse
RunParseOk ==
    /\ rpc = "parse"
    /\ rpc' = StepAfter("parse")
    /\ UNCHANGED <<rmode, loops, handles, failures, result>>
    /\ UNCHANGED notRun

\* a running loop sends or receives a packet and records it
RunLoopRecord ==
    /\ m.packets_sent + m.packets_received < MaxRunPackets
    /\ \E l \in LoopIds :
          /\ loops[l] = "running"
          /\ m' = IF l \in SendLoops THEN record_packet_sent(m, 64, now)
                                     ELSE record_packet_received(m, 64, 0, now)
    /\ UNCHANGED runVars
    /\ UNCHANGED notRunMetrics

\* the dispatcher's own bind/connect/listen/accept fails: `?` returns
RunSetupErr ==
    /\ rpc = "setup"
    /\ failures' = Append(failures, "setup")
    /\ result' = Err("setup")
    /\ rpc' = "done"
    /\ UNCHANGED <<rmode, loops, handles>>
    /\ UNCHANGED notRun

\* the setup succeeds: the loops are awaited or spawned
RunSetupOk ==
    /\ rpc = "setup"
    /\ rpc' = StepAfter("setup")
    /\ IF rmode = "BidiDual"
       THEN /\ handles' = [h \in HandleIds |-> "setup"]
            /\ UNCHANGED loops
       ELSE /\ loops' = [l \in LoopIds |-> IF l \in LoopsOf(rmode) THEN "running" ELSE "none"]
            /\ UNCHANGED handles
    /\ UNCHANGED <<rmode, failures, result>>
    /\ UNCHANGED notRun

\* DualStream task: tcp_connect / tcp_listen / accept fails, `?` ends the task with Err
HandleSetupErr(h) ==
    /\ handles[h] = "setup"
    /\ handles' = [handles EXCEPT ![h] = "Err"]
    /\ failures' = Append(failures, h)
    /\ UNCHANGED <<rmode, rpc, loops, result>>
    /\ UNCHANGED notRun

\* DualStream task: the stream is established and split, try_join! polls both loops
HandleSetupOk(h) ==
    /\ handles[h] = "setup"
    /\ handles' = [handles EXCEPT ![h] = "loops"]
    /\ loops' = [l \in LoopIds |-> IF l \in JoinedBy(h) THEN "running" ELSE loops[l]]
    /\ UNCHANGED <<rmode, rpc, failures, result>>
    /\ UNCHANGED notRun

\* `let _ = tokio::try_join!(..); Ok::<(), NetworkError>(())`
DualTaskResult(joined) == "Ok"

\* a loop of a cell other than DualStream returns
LoopEnd(l, out) ==
    /\ rmode # "BidiDual"
    /\ loops[l] = "running"
    /\ loops' = [loops EXCEPT ![l] = out]
    /\ failures' = IF out = "Err" THEN Append(failures, l) ELSE failures
    /\ UNCHANGED <<rmode, rpc, handles, result>>
    /\ UNCHANGED notRun

\* a loop under try_join! returns: on Err try_join! completes at once and drops
\* the other future; on Ok it completes when both have
DualLoopEnd(l, out) ==
    LET h == HandleOf(l)
        other == CHOOSE o \in JoinedBy(h) : o # l
    IN  /\ rmode = "BidiDual"
        /\ loops[l] = "running"
        /\ failures' = IF out = "Err" THEN Append(failures, l) ELSE failures
        /\ IF out = "Err"
           THEN /\ loops' = [loops EXCEPT ![l] = "Err",
                                          ![other] = IF @ = "running" THEN "dropped" ELSE @]
                /\ handles' = [handles EXCEPT ![h] = DualTaskResult("Err")]
           ELSE /\ loops' = [loops EXCEPT ![l] = "Ok"]
                /\ handles' = [handles EXCEPT ![h] =
                                  IF loops[other] = "Ok" THEN DualTaskResult("Ok") ELSE @]
        /\ UNCHANGED <<rmode, rpc, result>>
        /\ UNCHANGED notRun
    /\ UNCHANGED notRun

\* the result of `a?; b?` over two finished results
FirstErrInOrder(a, ra, b, rb) ==
    IF ra = "Err" THEN Err(a) ELSE IF rb = "Err" THEN Err(b) ELSE Ok

\* Client and Server cells: `loop(..).await?` then Ok(())
RunReturnInline ==
    /\ rpc = "joining"
    /\ rmode \in {"ClientUdp", "ClientTcp", "ServerUdp", "ServerTcp"}
    /\ \E l \in LoopsOf(rmode) :
          /\ loops[l] \in {"Ok", "Err"}
          /\ result' = IF loops[l] = "Err" THEN Err(l) ELSE Ok
    /\ rpc' = "done"
    /\ UNCHANGED <<rmode, loops, handles, failures>>
    /\ UNCHANGED notRun

\* Bidirectional UDP and SingleStream: join!(send, recv); send_result?; recv_result?
RunReturnJoin ==
    /\ rpc = "joining"
    /\ rmode \in {"BidiUdp", "BidiSingle"}
    /\ loops["send"] \in {"Ok", "Err"}
    /\ loops["recv"] \in {"Ok", "Err"}
    /\ result' = FirstErrInOrder("send", loops["send"], "recv", loops["recv"])
    /\ rpc' = "done"
    /\ UNCHANGED <<rmode, loops, handles, failures>>
    /\ UNCHANGED notRun

\* DualStream: join!(client_handle, server_handle); client_result??; server_result??
RunReturnDual ==
    /\ rpc = "joining"
    /\ rmode = "BidiDual"
    /\ handles["client"] \in {"Ok", "Err"}
    /\ handles["server"] \in {"Ok", "Err"}
    /\ result' = FirstErrInOrder("client", handles["client"], "server", handles["server"])
    /\ rpc' = "done"
    /\ UNCHANGED <<rmode, loops, handles, failures>>
    /\ UNCHANGED notRun

RunNext ==
    \/ RunStart
    \/ RunInvalidAddress
    \/ RunParseOk
    \/ RunLoopRecord
    \/ RunSetupErr
    \/ RunSetupOk
    \/ \E h \in HandleIds : HandleSetupErr(h)
    \/ \E h \in HandleIds : HandleSetupOk(h)
    \/ \E l \in LoopIds, out \in {"Ok", "Err"} : LoopEnd(l, out)
    \/ \E l \in LoopIds, out \in {"Ok", "Err"} : DualLoopEnd(l, out)
    \/ RunReturnInline
    \/ RunReturnJoin
    \/ RunReturnDual

SpecRun == RunInit /\ [][RunNext]_vars

----------------------------------------------------------------------------
(* Properties of the dispatcher *)

\* no loop future is still being polled
AllLoopsEnded == \A l \in LoopIds : loops[l] # "running"

\* C1: whenever a task ended with a fatal error, run returns an error, and it
\* returns only after every task has terminated; it returns Ok only if no task
\* failed.
C1_RunReturnsTaskError ==
    rpc = "done" =>
        /\ AllLoopsEnded
        /\ failures # <<>> => result # Ok

----------------------------------------------------------------------------
(* packet.rs: CustomPacket and its bincode encoding.  bincode (fixed-width *)
(* little-endian integers) writes sequence_number as 4 bytes, timestamp_ms *)
(* as 8 bytes, the PacketType variant index as 4 bytes, the payload length *)
(* as 8 bytes and then the payload.  A packet is the record                *)
(* [seq, ts, kind, size]: seq is the 4 bytes of sequence_number and ts the  *)
(* 8 bytes of timestamp_ms, least significant first; kind is the variant   *)
(* index, size the number of payload bytes, which are all zero.            *)

\* PacketType variant indices
Data == 0

EchoRequest == 3

EchoReply == 4

\* the bytes before the payload in an encoded packet
HeaderLen == 24

\* byte i (0 = least significant) of v
ByteOf(v, i) ==
    CASE i = 0 -> v % 256
      [] i = 1 -> (v \div 256) % 256
      [] i = 2 -> (v \div 65536) % 256
      [] i = 3 -> (v \div 16777216) % 256
      [] OTHER -> 0

\* SystemTime::now() as the 8 little-endian bytes of its milliseconds since the epoch
WallClocks == {<<43, 119, 214, 150, 161, 1, 0, 0>>}

\* a u32 as its 4 bytes, least significant first
U32Zero == <<0, 0, 0, 0>>

\* the mutant of wrapping_add_1: u32::saturating_add(1)
saturating_add_1(x) ==
    CASE x[1] < 255 -> <<x[1] + 1, x[2], x[3], x[4]>>
      [] x[1] = 255 /\ x[2] < 255 -> <<0, x[2] + 1, x[3], x[4]>>
      [] x[1] = 255 /\ x[2] = 255 /\ x[3] < 255 -> <<0, 0, x[3] + 1, x[4]>>
      [] x[1] = 255 /\ x[2] = 255 /\ x[3] = 255 /\ x[4] < 255 -> <<0, 0, 0, x[4] + 1>>
      [] OTHER -> x

\* u32::wrapping_add(1)
wrapping_add_1(x) ==
    CASE x[1] < 255 -> <<x[1] + 1, x[2], x[3], x[4]>>
      [] x[1] = 255 /\ x[2] < 255 -> <<0, x[2] + 1, x[3], x[4]>>
      [] x[1] = 255 /\ x[2] = 255 /\ x[3] < 255 -> <<0, 0, x[3] + 1, x[4]>>
      [] x[1] = 255 /\ x[2] = 255 /\ x[3] = 255 /\ x[4] < 255 -> <<0, 0, 0, x[4] + 1>>
      [] OTHER -> <<0, 0, 0, 0>>

\* PacketHeader::new + CustomPacket::new_data_packet
new_data_packet(sequence_number, payload_size_bytes, wall) ==
    [seq |-> sequence_number, ts |-> wall, kind |-> Data, size |-> payload_size_bytes]

\* PacketHeader::new + CustomPacket::new_echo_request
new_echo_request(sequence_number, payload_size_bytes, wall) ==
    [seq |-> sequence_number, ts |-> wall, kind |-> EchoRequest, size |-> payload_size_bytes]

\* the mutant of new_echo_reply: the header is built by PacketHeader::new, which
\* stamps the reply with the time of the reply
new_echo_reply_restamped(request_packet) ==
    [seq |-> request_packet.seq, ts |-> <<44, 119, 214, 150, 161, 1, 0, 0>>, kind |-> EchoReply,
     size |-> request_packet.size]

\* CustomPacket::new_echo_reply: the request's sequence number, timestamp and payload
new_echo_reply(request_packet) ==
    [seq |-> request_packet.seq, ts |-> request_packet.ts, kind |-> EchoReply,
     size |-> request_packet.size]

\* a < b for two u32 given as bytes, least significant first
U32Less(a, b) ==
    \/ a[4] < b[4]
    \/ a[4] = b[4] /\ a[3] < b[3]
    \/ a[4] = b[4] /\ a[3] = b[3] /\ a[2] < b[2]
    \/ a[4] = b[4] /\ a[3] = b[3] /\ a[2] = b[2] /\ a[1] < b[1]

\* to_bytes(pkt).len()
EncodedLen(pkt) == HeaderLen + pkt.size

\* the mutant of EncodedByte: the sequence number is written most significant
\* byte first
EncodedByteBigEndian(pkt, j) ==
    CASE j < 4 -> pkt.seq[4 - j]
      [] j >= 4 /\ j < 12 -> pkt.ts[j - 3]
      [] j >= 12 /\ j < 16 -> ByteOf(pkt.kind, j - 12)
      [] j >= 16 /\ j < 24 -> ByteOf(pkt.size, j - 16)
      [] OTHER -> 0

\* byte j (from 0) of to_bytes(pkt)
EncodedByte(pkt, j) ==
    CASE j < 4 -> pkt.seq[j + 1]
      [] j >= 4 /\ j < 12 -> pkt.ts[j - 3]
      [] j >= 12 /\ j < 16 -> ByteOf(pkt.kind, j - 12)
      [] j >= 16 /\ j < 24 -> ByteOf(pkt.size, j - 16)
      [] OTHER -> 0

\* a 4-byte integer from its bytes, least significant first; a value of 2^31 or
\* more is reported as 2^31 - 1, which is above every length the model compares it to
U32Sat(b0, b1, b2, b3) ==
    IF b3 >= 128 THEN 2147483647
    ELSE b0 + 256 * b1 + 65536 * b2 + 16777216 * b3

\* the mutant of from_bytes: the payload length is not checked against the
\* bytes that follow
from_bytes_ignoring_length(B, n) ==
    LET tag == U32Sat(B[12], B[13], B[14], B[15])
        plen == IF B[20] # 0 \/ B[21] # 0 \/ B[22] # 0 \/ B[23] # 0
                THEN 2147483647
                ELSE U32Sat(B[16], B[17], B[18], B[19])
    IN  IF n < HeaderLen THEN <<>>
        ELSE IF tag > 4 THEN <<>>
        ELSE << [seq |-> <<B[0], B[1], B[2], B[3]>>,
                 ts |-> <<B[4], B[5], B[6], B[7], B[8], B[9], B[10], B[11]>>,
                 kind |-> tag,
                 size |-> plen] >>

\* from_bytes on a buffer of n bytes whose first bytes (up to HeaderLen of them)
\* are B[0], B[1], ...: <<>> for Err, <<pkt>> for Ok.
\* bincode::deserialize fails when the input ends before a field is complete,
\* when the variant index is not one of the five, and when the payload length
\* exceeds the bytes that follow; bytes after the payload are ignored.
from_bytes(B, n) ==
    LET tag == U32Sat(B[12], B[13], B[14], B[15])
        plen == IF B[20] # 0 \/ B[21] # 0 \/ B[22] # 0 \/ B[23] # 0
                THEN 2147483647
                ELSE U32Sat(B[16], B[17], B[18], B[19])
    IN  IF n < HeaderLen THEN <<>>
        ELSE IF tag > 4 THEN <<>>
        ELSE IF plen > n - HeaderLen THEN <<>>
        ELSE << [seq |-> <<B[0], B[1], B[2], B[3]>>,
                 ts |-> <<B[4], B[5], B[6], B[7], B[8], B[9], B[10], B[11]>>,
                 kind |-> tag,
                 size |-> plen] >>

\* the first bytes of to_bytes(pkt) that fit a buffer of n bytes
EncodedHead(pkt, n) == [j \in 0..(Min(n, HeaderLen) - 1) |-> EncodedByte(pkt, j)]

----------------------------------------------------------------------------
(* The TCP byte stream: tcp_send_loop writes, per packet, the 4 bytes of   *)
(* (data.len() as u32).to_be_bytes() and then data.                        *)

\* the bytes one frame occupies on the stream
FrameLen(pkt) == 4 + EncodedLen(pkt)

\* byte i (from 0) of the frame of pkt
FrameByte(pkt, i) ==
    IF i < 4 THEN ByteOf(EncodedLen(pkt), 3 - i) ELSE EncodedByte(pkt, i - 4)

RECURSIVE StreamLen(_)
\* the number of bytes in a sequence of frames
StreamLen(w) == IF w = <<>> THEN 0 ELSE FrameLen(w[1]) + StreamLen(Tail(w))

RECURSIVE StreamByte(_, _)
\* byte off (from 0) of a sequence of frames
StreamByte(w, off) ==
    IF off < FrameLen(w[1]) THEN FrameByte(w[1], off)
    ELSE StreamByte(Tail(w), off - FrameLen(w[1]))

RECURSIVE FrameStarts(_, _)
\* <<offset of the body, body length>> of every frame of w, the first frame at base
FrameStarts(w, base) ==
    IF w = <<>> THEN <<>>
    ELSE <<<<base + 4, EncodedLen(w[1])>>>> \o FrameStarts(Tail(w), base + FrameLen(w[1]))

----------------------------------------------------------------------------
(* Spec: a Client run and a Server run of run_network_test against each    *)
(* other.  The server run starts at time 0; the client run starts at any   *)
(* time.  A task takes its step as soon as the step is possible (time      *)
(* advances only when no task can move); the network delivers when it      *)
(* likes.                                                                  *)

\* the last clock reading (seconds) explored
MaxTime == 8

\* the longest test_duration_secs explored
MaxDuration == 2

\* `10 * 1024 * 1024`, the frame-length limit of tcp_receive_loop
MaxFrame == 10485760

\* `Duration::from_secs(5)`, the receivers' grace period
GraceSecs == 5

\* the bandwidth sampler's period, `bandwidth_sample_interval_ms = 1000`, in seconds
SampleSecs == 1

\* the longest stream (bytes) whose delivery is explored in pieces that end
\* inside a length prefix
MaxSplitStream == 87

\* `vec![0u8; 4096]`, the datagram buffer of udp_receive_loop
UdpBuf == 4096

\* the packet sizes explored over TCP: a small fixed payload, and a
\* multi-megabyte base size with a size range that reaches past MaxFrame
TcpPacketConfigs ==
    { [packet_size_bytes |-> 1, packet_size_range |-> None],
      [packet_size_bytes |-> 6291456, packet_size_range |-> Some(<<6291456, 13631464>>)] }

\* the packet sizes explored over UDP: a small fixed payload, one that makes
\* a datagram longer than UdpBuf, and a size range from a payload whose reply
\* is longer than the send loop's recv_buf to one longer than UdpBuf
UdpPacketConfigs ==
    { [packet_size_bytes |-> 1, packet_size_range |-> None],
      [packet_size_bytes |-> 5000, packet_size_range |-> None],
      [packet_size_bytes |-> 3000, packet_size_range |-> Some(<<3000, 5000>>)] }

Config(proto, d, pc) ==
    [protocol |-> proto, test_duration_secs |-> d, tick_rate_hz |-> 1,
     packet_size_bytes |-> pc.packet_size_bytes,
     packet_size_range |-> pc.packet_size_range,
     latency_spike_threshold_ms |-> None, jitter_spike_threshold_ms |-> None]

PacedConfigs ==
    { Config("Tcp", d, pc) : d \in 1..MaxDuration, pc \in TcpPacketConfigs }
    \cup { Config("Udp", d, pc) : d \in 1..MaxDuration, pc \in UdpPacketConfigs }

\* the same run with tick_rate_hz 0 ("as fast as possible")
AfapConfig(c) == [c EXCEPT !.tick_rate_hz = 0]

Configs == PacedConfigs \cup { AfapConfig(c) : c \in PacedConfigs }

\* config.tick_interval() panics: 1.0 / 0 as f64 is infinite, and
\* Duration::from_secs_f64 panics on a value that is not finite
TickIntervalPanics(c) == c.tick_rate_hz = 0

\* config.tick_interval(), in seconds, when it returns
tick_interval(c) == 1 \div c.tick_rate_hz

\* config.total_duration(), in seconds
total_duration(c) == c.test_duration_secs

\* the values current_packet_size can take: the fixed size, or values of
\* r.gen_range(min_size..=max_size) (the two ends and one between)
PacketSizeChoices(c) ==
    IF is_some(c.packet_size_range)
    THEN LET lo == unwrap(c.packet_size_range)[1]
             hi == unwrap(c.packet_size_range)[2]
         IN  {lo, hi} \cup {x \in {11534312} : lo <= x /\ x <= hi}
    ELSE {c.packet_size_bytes}

\* the cargo profiles: dev has overflow-checks on, release has them off
Builds == {"debug", "release"}

Init ==
    /\ now = 0
    /\ MetricsIdle
    /\ RunIdle
    /\ CodecIdle
    /\ SingleIdle
    /\ LockIdle
    /\ PaceIdle
    /\ cfg \in Configs
    /\ build \in Builds
    /\ cpc = "idle" /\ cstart = 0 /\ cseq = U32Zero /\ cnext = 0 /\ cm = NewMetrics /\ cres = <<>>
    /\ spc = (IF cfg.protocol = "Tcp" THEN "accept" ELSE "urecv")
    /\ sm = RunStartMetrics(cfg, 0) /\ sres = <<>> /\ sexit = "none"
    /\ snext = (IF cfg.protocol = "Tcp" THEN 0 ELSE SampleSecs)
    /\ rpos = 0 /\ packet_len = 0 /\ buf_len = 0 /\ buf_cap = 0 /\ counted = <<>>
    /\ wire = <<>> /\ avail = 0 /\ fin = FALSE /\ rst = FALSE
    /\ c2s = {} /\ s2c = {} /\ highest = None /\ uerr = "none" /\ replies = 0

\* the server's test_start_time
sstart == unwrap(sm.test_start_time)

\* the client has a connection (established, possibly already closed by it)
Connected == cfg.protocol = "Tcp" /\ cpc \in {"loop", "done"}

\* `test_start_time + server_lifetime` has been reached
DeadlineDue == now >= sstart + total_duration(cfg) + GraceSecs

\* the bytes at the server's socket that no completed read has consumed
Unread == avail - rpos

(* ---- the client run: run_network_test, Client / Tcp, and tcp_send_loop ---- *)

ClientStart ==
    /\ cpc = "idle"
    /\ cstart' = now
    /\ cm' = RunStartMetrics(cfg, now)
    /\ cpc' = (IF cfg.protocol = "Tcp" THEN "connect" ELSE "bind")
    /\ UNCHANGED <<now, cfg, build, cseq, cnext, cres, serverVars, tcpVars>>
    /\ UNCHANGED notTcp

\* tcp_connect fails: `?` returns the error
ClientConnectErr ==
    /\ cpc = "connect"
    /\ cpc' = "failed"
    /\ cres' = Err("io")
    /\ UNCHANGED <<now, cfg, build, cstart, cseq, cnext, cm, serverVars, tcpVars>>
    /\ UNCHANGED notTcp

\* the state the send loop is in after its `while` condition is evaluated at time t:
\* back at the ticker, or past the loop with the write half shut down
AfterLoopTest(t) == IF t - cstart < total_duration(cfg) THEN "loop" ELSE "done"

\* tcp_connect succeeds; tcp_send_loop calls tick_interval (a panic drops the
\* stream), creates its ticker and tests its loop condition
ClientConnect ==
    /\ cpc = "connect"
    /\ spc = "accept"
    /\ IF TickIntervalPanics(cfg)
       THEN /\ cnext' = cnext
            /\ cpc' = "done"
            /\ cres' = Panic
       ELSE /\ cnext' = now + tick_interval(cfg)
            /\ cpc' = AfterLoopTest(now)
            /\ cres' = IF AfterLoopTest(now) = "done" THEN Ok ELSE cres
    /\ UNCHANGED <<now, cfg, build, cstart, cseq, cm, serverVars, tcpVars>>
    /\ UNCHANGED notTcp

\* one iteration of tcp_send_loop (is_primary_sender): the tick, the packet,
\* the two write_all, record_packet_sent, and the loop condition
ClientSend ==
    /\ cpc = "loop"
    /\ cfg.protocol = "Tcp"
    /\ now >= cnext
    /\ ~rst
    /\ \E size \in PacketSizeChoices(cfg), wall \in WallClocks :
          LET packet == new_data_packet(cseq, size, wall)
          IN  /\ wire' = Append(wire, packet)
              /\ cm' = record_packet_sent(cm, EncodedLen(packet) + 4, now)
    /\ cseq' = wrapping_add_1(cseq)
    /\ cnext' = cnext + tick_interval(cfg)
    /\ cpc' = AfterLoopTest(now)
    /\ cres' = IF AfterLoopTest(now) = "done" THEN Ok ELSE cres
    /\ UNCHANGED <<now, cfg, build, cstart, serverVars, avail, fin, rst>>
    /\ UNCHANGED notTcp

\* write_all fails (the connection was reset, or the server has closed its end)
ClientSendErr ==
    /\ cpc = "loop"
    /\ cfg.protocol = "Tcp"
    /\ now >= cnext
    /\ rst \/ spc = "done"
    /\ cpc' = "done"
    /\ cres' = Err("io")
    /\ UNCHANGED <<now, cfg, build, cstart, cseq, cnext, cm, serverVars, tcpVars>>
    /\ UNCHANGED notTcp

(* ---- the network ---- *)

\* more of the written bytes reach the server's socket: all of them, or so few
\* that the pending read of a length prefix stays incomplete
NetDeliver ==
    /\ Connected
    /\ ~rst
    /\ spc \in {"accept", "select", "body"}
    /\ \E a \in {StreamLen(wire)} \cup
                (IF spc = "select" /\ StreamLen(wire) <= MaxSplitStream
                 THEN {rpos + 1, rpos + 2, rpos + 3} ELSE {}) :
          /\ a > avail
          /\ a <= StreamLen(wire)
          /\ avail' = a
    /\ UNCHANGED <<now, cfg, build, clientVars, serverVars, wire, fin, rst>>
    /\ UNCHANGED notTcp

\* the client's close (after every byte it wrote) reaches the server's socket
NetFin ==
    /\ cpc = "done"
    /\ ~rst /\ ~fin
    /\ avail = StreamLen(wire)
    /\ spc \in {"accept", "select", "body"}
    /\ fin' = TRUE
    /\ UNCHANGED <<now, cfg, build, clientVars, serverVars, wire, avail, rst>>
    /\ UNCHANGED notTcp

\* the connection is reset
NetReset ==
    /\ Connected
    /\ ~rst
    /\ spc \in {"accept", "select", "body"}
    /\ rst' = TRUE
    /\ UNCHANGED <<now, cfg, build, clientVars, serverVars, wire, avail, fin>>
    /\ UNCHANGED notTcp

(* ---- the server run: run_network_test, Server / Tcp, and tcp_receive_loop ---- *)

\* byte j (from 0) of the stream after the bytes completed reads have consumed
Incoming(j) == StreamByte(wire, rpos + j)

\* the first bytes of the n-byte body at the head of the stream
IncomingHead(n) == [j \in 0..(Min(n, HeaderLen) - 1) |-> Incoming(j)]

\* Vec::reserve(additional) on a vector of the given capacity and length:
\* the capacity afterwards (amortized growth)
reserve(cap, len, additional) ==
    IF cap - len >= additional THEN cap ELSE Max(2 * cap, len + additional)

\* listener.accept() returns the connection; tcp_receive_loop creates its
\* sampler and its buffers
ServerAccept ==
    /\ spc = "accept"
    /\ Connected
    /\ spc' = "select"
    /\ snext' = now + SampleSecs
    /\ buf_cap' = Max(cfg.packet_size_bytes, 1024) * 2
    /\ buf_len' = 0
    /\ UNCHANGED <<now, cfg, build, clientVars, sm, sres, sexit, rpos, packet_len, counted, tcpVars>>
    /\ UNCHANGED notTcp

\* select!, first branch: the shutdown deadline
ServerDeadline ==
    /\ spc = "select"
    /\ DeadlineDue
    /\ sm' = take_bandwidth_sample(sm, ElapsedMs(now, sstart), now)
    /\ spc' = "done"
    /\ sres' = Ok
    /\ sexit' = "deadline"
    /\ UNCHANGED <<now, cfg, build, clientVars, snext, rpos, packet_len, buf_len, buf_cap, counted, tcpVars>>
    /\ UNCHANGED notTcp

\* lines 645-646: the limit is tested only for a length above the buffer's capacity
LengthRejected(len, cap) == len > cap /\ len > MaxFrame

\* select!, second branch: read_exact(&mut length_buffer) completes with 4 bytes
ServerReadLen ==
    /\ spc = "select"
    /\ ~DeadlineDue
    /\ ~rst
    /\ Unread >= 4
    /\ LET len == U32Sat(Incoming(3), Incoming(2), Incoming(1), Incoming(0))
       IN  /\ rpos' = rpos + 4
           /\ IF len = 0
              THEN UNCHANGED <<spc, sres, sexit, packet_len, buf_len, buf_cap>>
              ELSE IF LengthRejected(len, buf_cap)
              THEN /\ spc' = "done"
                   /\ sres' = Err("Excessive packet length")
                   /\ sexit' = "too_long"
                   /\ UNCHANGED <<packet_len, buf_len, buf_cap>>
              ELSE /\ spc' = "body"
                   /\ packet_len' = len
                   /\ buf_cap' = IF len > buf_cap THEN reserve(buf_cap, buf_len, len) ELSE buf_cap
                   /\ buf_len' = Max(buf_len, len)
                   /\ UNCHANGED <<sres, sexit>>
    /\ UNCHANGED <<now, cfg, build, clientVars, sm, snext, counted, tcpVars>>
    /\ UNCHANGED notTcp

\* select!, second branch: read_exact(&mut length_buffer) meets end-of-stream
ServerLenEof ==
    /\ spc = "select"
    /\ ~DeadlineDue
    /\ ~rst
    /\ fin
    /\ Unread < 4
    /\ spc' = "done"
    /\ sres' = Ok
    /\ sexit' = "eof_len"
    /\ UNCHANGED <<now, cfg, build, clientVars, sm, snext, rpos, packet_len, buf_len, buf_cap, counted, tcpVars>>
    /\ UNCHANGED notTcp

\* select!, second branch: read_exact(&mut length_buffer) fails with another error
ServerLenErr ==
    /\ spc = "select"
    /\ ~DeadlineDue
    /\ rst
    /\ spc' = "done"
    /\ sres' = Err("io")
    /\ sexit' = "io_len"
    /\ UNCHANGED <<now, cfg, build, clientVars, sm, snext, rpos, packet_len, buf_len, buf_cap, counted, tcpVars>>
    /\ UNCHANGED notTcp

\* select!, third branch: the sampler tick wins while the read of the length is
\* incomplete; the read_exact future is dropped with the bytes it had consumed
ServerSampler ==
    /\ spc = "select"
    /\ ~DeadlineDue
    /\ ~rst /\ ~fin
    /\ Unread < 4
    /\ now >= snext
    /\ sm' = take_bandwidth_sample(sm, ElapsedMs(now, sstart), now)
    /\ snext' = snext + SampleSecs
    /\ rpos' = avail
    /\ UNCHANGED <<now, cfg, build, clientVars, spc, sres, sexit, packet_len, buf_len, buf_cap, counted, tcpVars>>
    /\ UNCHANGED notTcp

\* the mutant of ReceivedSize: the prefix is not counted
ReceivedSizeBody(len) == len

\* line 671: the size passed to record_packet_received
ReceivedSize(len) == len + 4

\* line 662: read_exact(&mut packet_buffer[..packet_len]) completes; from_bytes
ServerReadBody ==
    /\ spc = "body"
    /\ ~rst
    /\ Unread >= packet_len
    /\ IF is_some(from_bytes(IncomingHead(packet_len), packet_len))
       THEN /\ sm' = record_packet_received(sm, ReceivedSize(packet_len), 0, now)
            /\ counted' = Append(counted, <<rpos, packet_len>>)
       ELSE UNCHANGED <<sm, counted>>
    /\ rpos' = rpos + packet_len
    /\ spc' = "select"
    /\ UNCHANGED <<now, cfg, build, clientVars, sres, sexit, snext, packet_len, buf_len, buf_cap, tcpVars>>
    /\ UNCHANGED notTcp

\* lines 679-682 and 711-712: `break`, then Ok(())
BodyEofResult == Ok

\* line 662: read_exact(&mut packet_buffer[..packet_len]) meets end-of-stream
ServerBodyEof ==
    /\ spc = "body"
    /\ ~rst
    /\ fin
    /\ Unread < packet_len
    /\ spc' = "done"
    /\ sres' = BodyEofResult
    /\ sexit' = "eof_body"
    /\ UNCHANGED <<now, cfg, build, clientVars, sm, snext, rpos, packet_len, buf_len, buf_cap, counted, tcpVars>>
    /\ UNCHANGED notTcp

\* line 662: read_exact(&mut packet_buffer[..packet_len]) fails with another error
ServerBodyErr ==
    /\ spc = "body"
    /\ rst
    /\ spc' = "done"
    /\ sres' = Err("io")
    /\ sexit' = "io_body"
    /\ UNCHANGED <<now, cfg, build, clientVars, sm, snext, rpos, packet_len, buf_len, buf_cap, counted, tcpVars>>
    /\ UNCHANGED notTcp

(* ---- the client run: run_network_test, Client / Udp, and udp_send_loop ---- *)

\* UdpSocket::bind or connect fails: `?` returns the error
ClientUdpBindErr ==
    /\ cpc = "bind"
    /\ cpc' = "failed"
    /\ cres' = Err("io")
    /\ UNCHANGED <<now, cfg, build, cstart, cseq, cnext, cm, spc, sm, sres, sexit, snext, udpVars>>
    /\ UNCHANGED notUdp

\* the socket is bound and connected; udp_send_loop calls tick_interval (line
\* 271, before tick_rate_hz is looked at), creates its ticker and tests its
\* loop condition
ClientUdpBind ==
    /\ cpc = "bind"
    /\ IF TickIntervalPanics(cfg)
       THEN /\ cnext' = cnext
            /\ cpc' = "done"
            /\ cres' = Panic
       ELSE /\ cnext' = now + tick_interval(cfg)
            /\ cpc' = AfterLoopTest(now)
            /\ cres' = IF AfterLoopTest(now) = "done" THEN Ok ELSE cres
    /\ UNCHANGED <<now, cfg, build, cstart, cseq, cm, spc, sm, sres, sexit, snext, udpVars>>
    /\ UNCHANGED notUdp

\* lines 289-327: the tick, the echo request, socket.send, record_packet_sent
ClientUdpSend ==
    /\ cpc = "loop"
    /\ cfg.protocol = "Udp"
    /\ now >= cnext
    /\ \E size \in PacketSizeChoices(cfg), wall \in WallClocks :
          LET packet == new_echo_request(cseq, size, wall)
          IN  /\ c2s' = c2s \cup {packet}
              /\ cm' = record_packet_sent(cm, EncodedLen(packet), now)
    /\ cnext' = cnext + tick_interval(cfg)
    /\ cpc' = "reply"
    /\ UNCHANGED <<now, cfg, build, cstart, cseq, cres, spc, sm, sres, sexit, snext, s2c, highest, uerr, replies>>
    /\ UNCHANGED notUdp

\* send_time.elapsed() of a reply that beat the 200 ms timeout, in microseconds
ReplyRtts == {1000, 150000}

\* `vec![0u8; 2048]`, the reply buffer of udp_send_loop
RecvBuf == 2048

\* the mutant of ReplyMatches: any decoded EchoReply is taken for the answer
ReplyMatchesAnySeq(reply, sequence_number) ==
    /\ is_some(reply)
    /\ unwrap(reply).kind = EchoReply

\* lines 345-347: the datagram decoded, and it is the EchoReply of the request just sent
ReplyMatches(reply, sequence_number) ==
    /\ is_some(reply)
    /\ unwrap(reply).kind = EchoReply
    /\ unwrap(reply).seq = sequence_number

\* lines 342-364: socket.recv returns a datagram within the timeout
ClientUdpReply ==
    /\ cpc = "reply"
    /\ \E d \in s2c, rtt \in ReplyRtts :
          LET len == Min(EncodedLen(d), RecvBuf)
              reply == from_bytes(EncodedHead(d, len), len)
          IN  /\ s2c' = s2c \ {d}
              /\ cm' = IF ReplyMatches(reply, cseq)
                       THEN record_packet_received(cm, len, rtt, now)
                       ELSE cm
    /\ cseq' = wrapping_add_1(cseq)
    /\ cpc' = AfterLoopTest(now)
    /\ cres' = IF AfterLoopTest(now) = "done" THEN Ok ELSE cres
    /\ UNCHANGED <<now, cfg, build, cstart, cnext, spc, sm, sres, sexit, snext, c2s, highest, uerr, replies>>
    /\ UNCHANGED notUdp

\* lines 359-364: the timeout elapses, or socket.recv fails
ClientUdpTimeout ==
    /\ cpc = "reply"
    /\ cseq' = wrapping_add_1(cseq)
    /\ cpc' = AfterLoopTest(now)
    /\ cres' = IF AfterLoopTest(now) = "done" THEN Ok ELSE cres
    /\ UNCHANGED <<now, cfg, build, cstart, cnext, cm, spc, sm, sres, sexit, snext, udpVars>>
    /\ UNCHANGED notUdp

(* ---- the UDP network ---- *)

\* a datagram is lost (the network may lose and reorder datagrams; it does not
\* duplicate them, and no third party sends to either socket)
NetUdpLose ==
    /\ \/ \E d \in c2s : c2s' = c2s \ {d} /\ s2c' = s2c
       \/ \E d \in s2c : s2c' = s2c \ {d} /\ c2s' = c2s
    /\ UNCHANGED <<now, cfg, build, clientVars, spc, sm, sres, sexit, snext, highest, uerr, replies>>
    /\ UNCHANGED notUdp

\* the kinds of error recv_from can report
RecvErrors == {"ConnectionReset", "Other"}

\* the server's socket gets an error to report
NetUdpError ==
    /\ spc = "urecv"
    /\ uerr = "none"
    /\ uerr' \in RecvErrors
    /\ UNCHANGED <<now, cfg, build, clientVars, spc, sm, sres, sexit, snext, c2s, s2c, highest, replies>>
    /\ UNCHANGED notUdp

(* ---- the server run: run_network_test, Server / Udp, and udp_receive_loop ---- *)

\* select!, first branch: the shutdown deadline
ServerUdpDeadline ==
    /\ spc = "urecv"
    /\ DeadlineDue
    /\ sm' = take_bandwidth_sample(sm, ElapsedMs(now, sstart), now)
    /\ spc' = "done"
    /\ sres' = Ok
    /\ sexit' = "deadline"
    /\ UNCHANGED <<now, cfg, build, clientVars, snext, udpVars>>
    /\ UNCHANGED notUdp

\* `u32::MAX / 4`
WrapLow == <<255, 255, 255, 63>>

\* `u32::MAX * 3 / 4` evaluated in u32 with the overflow of the product
\* wrapping: (2^32 - 3) / 4
WrapHigh == <<255, 255, 255, 63>>

\* line 424 evaluates `u32::MAX * 3`, which overflows u32: with overflow checks
\* the task panics there.  The product is the right operand of `&&`, so it is
\* evaluated only when `current_seq < u32::MAX / 4` holds.
OverflowPanics(current_seq) == build = "debug" /\ U32Less(current_seq, WrapLow)

\* lines 422-437: the out-of-order test and its bookkeeping (no panic)
record_out_of_order(mt, current_seq, highest_seen, t) ==
    LET is_likely_wrap == /\ U32Less(current_seq, WrapLow)
                          /\ U32Less(WrapHigh, highest_seen)
    IN  IF U32Less(current_seq, highest_seen) /\ ~is_likely_wrap
        THEN [mt EXCEPT !.out_of_order_count = @ + 1,
                        !.anomalies = Append(@, AnomalyEvent(AnomalyTimeMs(mt, t), "OutOfOrder",
                                                             <<current_seq, highest_seen>>))]
        ELSE mt

\* line 444: highest_udp_seq_received.map_or(current_seq, |h| h.max(current_seq))
highest_after(h, current_seq) ==
    IF is_some(h) /\ U32Less(current_seq, unwrap(h)) THEN h ELSE Some(current_seq)

\* what socket.send_to(&reply_bytes, src_addr) returns; an Err is logged
SendToResults == {"Ok", "Err"}

\* select!, second branch: recv_from returns a datagram
ServerUdpRecv ==
    /\ spc = "urecv"
    /\ ~DeadlineDue
    /\ \E d \in c2s :
          LET len == Min(EncodedLen(d), UdpBuf)
              parsed == from_bytes(EncodedHead(d, len), len)
          IN  /\ c2s' = c2s \ {d}
              /\ IF is_none(parsed)
                 THEN UNCHANGED <<sm, highest, s2c, replies, spc, sres, sexit>>
                 ELSE LET packet == unwrap(parsed)
                          m1 == record_packet_received(sm, len, 0, now)
                      IN  IF is_some(highest) /\ OverflowPanics(packet.seq)
                          THEN /\ sm' = m1
                               /\ spc' = "done"
                               /\ sres' = Panic
                               /\ sexit' = "panic"
                               /\ UNCHANGED <<highest, s2c, replies>>
                          ELSE /\ sm' = IF is_some(highest)
                                        THEN record_out_of_order(m1, packet.seq, unwrap(highest), now)
                                        ELSE m1
                               /\ highest' = highest_after(highest, packet.seq)
                               /\ IF packet.kind = EchoRequest
                                  THEN /\ replies' = replies + 1
                                       /\ \E sent \in SendToResults :
                                              s2c' = IF sent = "Ok"
                                                     THEN s2c \cup {new_echo_reply(packet)}
                                                     ELSE s2c
                                  ELSE UNCHANGED <<s2c, replies>>
                               /\ UNCHANGED <<spc, sres, sexit>>
    /\ UNCHANGED <<now, cfg, build, clientVars, snext, uerr>>
    /\ UNCHANGED notUdp

\* what the loop does on a recv_from error: ConnectionReset is logged and the
\* loop goes on; any other error ends the loop with `break`
ServerUdpRecvErr ==
    /\ spc = "urecv"
    /\ ~DeadlineDue
    /\ uerr # "none"
    /\ uerr' = "none"
    /\ IF uerr = "ConnectionReset"
       THEN UNCHANGED <<spc, sres, sexit>>
       ELSE /\ spc' = "done"
            /\ sres' = Ok
            /\ sexit' = "recv_err"
    /\ UNCHANGED <<now, cfg, build, clientVars, sm, snext, c2s, s2c, highest, replies>>
    /\ UNCHANGED notUdp

\* select!, third branch: the sampler tick, when recv_from has nothing to return
ServerUdpSampler ==
    /\ spc = "urecv"
    /\ ~DeadlineDue
    /\ uerr = "none"
    /\ now >= snext
    /\ sm' = take_bandwidth_sample(sm, ElapsedMs(now, sstart), now)
    /\ snext' = snext + SampleSecs
    /\ UNCHANGED <<now, cfg, build, clientVars, spc, sres, sexit, udpVars>>
    /\ UNCHANGED notUdp

(* ---- time ---- *)

\* a task has a step it can take now
ClientCanMove ==
    \/ cpc = "loop" /\ now >= cnext
    \/ cpc = "reply"

ServerCanMove ==
    \/ spc = "accept" /\ Connected
    \/ /\ spc = "select"
       /\ DeadlineDue \/ rst \/ fin \/ Unread >= 4 \/ now >= snext
    \/ /\ spc = "body"
       /\ rst \/ fin \/ Unread >= packet_len
    \/ /\ spc = "urecv"
       /\ DeadlineDue \/ uerr # "none" \/ now >= snext

Tick ==
    /\ now < MaxTime
    /\ ~ClientCanMove
    /\ ~ServerCanMove
    /\ now' = now + 1
    /\ UNCHANGED netVars
    /\ UNCHANGED notNet

Next ==
    \/ ClientStart
    \/ ClientConnectErr
    \/ ClientConnect
    \/ ClientSend
    \/ ClientSendErr
    \/ NetDeliver
    \/ NetFin
    \/ NetReset
    \/ ServerAccept
    \/ ServerDeadline
    \/ ServerReadLen
    \/ ServerLenEof
    \/ ServerLenErr
    \/ ServerSampler
    \/ ServerReadBody
    \/ ServerBodyEof
    \/ ServerBodyErr
    \/ ClientUdpBindErr
    \/ ClientUdpBind
    \/ ClientUdpSend
    \/ ClientUdpReply
    \/ ClientUdpTimeout
    \/ NetUdpLose
    \/ NetUdpError
    \/ ServerUdpDeadline
    \/ ServerUdpRecv
    \/ ServerUdpRecvErr
    \/ ServerUdpSampler
    \/ Tick

Spec == Init /\ [][Next]_vars

----------------------------------------------------------------------------
(* Properties of the client run and the server run *)

\* both runs have returned
Completed == cpc \in {"done", "failed"} /\ spc = "done"

\* C2: every task stops at its deadline whatever the peer does; in particular the
\* server run (its accept step and its receive loop) is over no later than
\* test-duration + 5 s after it started, even if no peer connects or the peer
\* stalls inside a frame.
C2_ServerStopsByDeadline ==
    now > sstart + total_duration(cfg) + GraceSecs => spc = "done"

\* C3: in a TCP run whose connection is established and is not reset, once the
\* client has returned Ok and the server has returned Ok after reading the
\* stream up to the client's close, the server's packets_received equals the
\* client's packets_sent.
C3_TcpCountsEqual ==
    ( /\ cfg.protocol = "Tcp"
      /\ cpc = "done" /\ cres = Ok
      /\ spc = "done" /\ sres = Ok /\ sexit # "deadline"
      /\ ~rst )
    => sm.packets_received = cm.packets_sent

C5_ReceivedAtMostSent ==
    Completed => sm.packets_received <= cm.packets_sent

C5_Witness ==
    /\ Completed
    /\ cfg.protocol = "Udp"
    /\ cm.packets_sent = 2
    /\ sm.packets_received = 1

RECURSIVE SumBytes(_)
\* the sum of bytes_in_interval over a list of bandwidth samples
SumBytes(samples) ==
    IF samples = <<>> THEN 0 ELSE samples[1][2] + SumBytes(Tail(samples))

\* C6: when the UDP receive loop has ended, bytes_received equals the sum of
\* bytes_in_interval over the recorded bandwidth samples.
C6_UdpBytesAreSampled ==
    (cfg.protocol = "Udp" /\ spc = "done")
    => sm.bytes_received = SumBytes(sm.bandwidth_samples)

\* C9: the TCP receive loop reads no body for a frame whose length prefix
\* exceeds 10 MiB.
C9_NoBodyAboveLimit ==
    spc = "body" => packet_len <= MaxFrame

\* C10: end-of-stream while reading a length prefix ends the TCP receive loop
\* with Ok, and end-of-stream while reading a frame body ends it with an error.
C10_EofInBodyIsError ==
    /\ sexit = "eof_len" => sres = Ok
    /\ sexit = "eof_body" => sres # Ok

\* C11: in the UDP receive loop a ConnectionReset from recv_from leaves the loop
\* running, and any other recv_from error ends the loop with an error result.
C11_RecvErrorEndsWithErr ==
    /\ (spc = "urecv" /\ uerr = "ConnectionReset") => sres = <<>>
    /\ sexit = "recv_err" => sres # Ok

\* C12: a receive loop (UDP or TCP) that ends on its deadline branch without
\* having counted a packet ends no earlier than test-duration + 5 s, returns Ok,
\* and has taken its final bandwidth sample: bandwidth_samples is non-empty, its
\* last entry is stamped at or after the deadline, and packets_received is 0.
C12_IdleLoopExitsCleanly ==
    (sexit = "deadline" /\ sm.packets_received = 0)
    => /\ spc = "done"
       /\ sres = Ok
       /\ now >= sstart + total_duration(cfg) + GraceSecs
       /\ sm.bandwidth_samples # <<>>
       /\ sm.bandwidth_samples[Len(sm.bandwidth_samples)][1]
              >= 1000 * (total_duration(cfg) + GraceSecs)
       /\ sm.bytes_received = 0

C12_Witness ==
    /\ sexit = "deadline"
    /\ sm.packets_received = 0
    /\ cfg.protocol = "Tcp"
    /\ Connected
    /\ Len(sm.bandwidth_samples) >= 2

\* a small number as a u32 (bytes, least significant first)
U32Of(n) == <<ByteOf(n, 0), ByteOf(n, 1), ByteOf(n, 2), ByteOf(n, 3)>>

\* the low and the high half of a u32
Lo16(x) == x[1] + 256 * x[2]

Hi16(x) == x[3] + 256 * x[4]

\* y = x + 1 modulo 2^32
IsNextSeq(x, y) ==
    IF Lo16(x) = 65535
    THEN Lo16(y) = 0 /\ Hi16(y) = (Hi16(x) + 1) % 65536
    ELSE Lo16(y) = Lo16(x) + 1 /\ Hi16(y) = Hi16(x)

\* sequence numbers at which a carry happens, and the last one before the wrap
SeqSamples ==
    { U32Zero, <<255, 0, 0, 0>>, <<255, 255, 0, 0>>, <<255, 255, 255, 0>>,
      <<255, 255, 255, 127>>, <<254, 255, 255, 255>>, <<255, 255, 255, 255>> }

\* the sequence numbers of one UDP send loop: the packet emitted carries the
\* number of packets emitted before it
UdpSeqInv ==
    cfg.protocol = "Udp" =>
        /\ cpc \in {"idle", "bind", "failed", "loop", "done"} => cseq = U32Of(cm.packets_sent)
        /\ cpc = "reply" => cm.packets_sent >= 1 /\ cseq = U32Of(cm.packets_sent - 1)
        /\ \A d1, d2 \in c2s : d1.seq = d2.seq => d1 = d2

\* one step of a UDP send loop: a datagram is emitted only at the ticker, with
\* the current sequence number; the number moves only after the wait for the
\* reply, by one, and it moves after every such wait
UdpSeqStep ==
    cfg.protocol = "Udp" =>
        /\ \A d \in c2s' \ c2s :
              cpc = "loop" /\ d.seq = cseq /\ cm'.packets_sent = cm.packets_sent + 1
        /\ cseq' # cseq => cpc = "reply" /\ IsNextSeq(cseq, cseq')
        /\ (cpc = "reply" /\ cpc' # "reply") => cseq' # cseq

\* C13: the packets of one UDP send loop carry 0, 1, 2, ...: each one greater
\* than the previous modulo 2^32, none skipped or repeated, whether a reply came
\* for the previous packet or not.
C13_UdpSeqConsecutive ==
    /\ []UdpSeqInv
    /\ [][UdpSeqStep]_vars
    /\ [](\A x \in SeqSamples : IsNextSeq(x, wrapping_add_1(x)))

C13_Witness ==
    /\ cfg.protocol = "Udp"
    /\ cm.packets_sent = 2
    /\ cm.packets_received = 1
    /\ cpc = "done"
    /\ cseq = <<2, 0, 0, 0>>

\* the wrap-around window: current < 2^32 / 4 and highest > 3 * 2^32 / 4
InWrapWindow(current, high) ==
    U32Less(current, <<0, 0, 0, 64>>) /\ U32Less(<<0, 0, 0, 192>>, high)

\* a packet is out of order: strictly below the highest sequence seen so far
\* and outside the wrap-around window
IsOutOfOrder(h, current) ==
    is_some(h) /\ U32Less(current, unwrap(h)) /\ ~InWrapWindow(current, unwrap(h))

\* a step in which the UDP receive loop decodes datagram d
Decodes(d) ==
    /\ cfg.protocol = "Udp"
    /\ d \in c2s /\ d \notin c2s'
    /\ sm'.packets_received = sm.packets_received + 1

\* C14: each datagram the UDP receive loop decodes is reported out of order
\* exactly when its sequence is strictly below the highest seen and outside the
\* wrap-around window; it then adds one to out_of_order_count and one OutOfOrder
\* anomaly; the highest sequence seen becomes max(highest, current).
C14_OutOfOrderExactly ==
    [][\A d \in c2s :
          Decodes(d) =>
             LET n == IF IsOutOfOrder(highest, d.seq) THEN 1 ELSE 0
             IN  /\ sm'.out_of_order_count = sm.out_of_order_count + n
                 /\ Len(sm'.anomalies) = Len(sm.anomalies) + n
                 /\ highest' = highest_after(highest, d.seq)]_vars

\* C15: the packet new_echo_reply builds for a request has the request's
\* sequence number, wire timestamp and payload, and kind EchoReply (checked on
\* every reply the UDP receive loop sends for a datagram it decoded).
C15_ReplyCopiesRequest ==
    [][\A r \in s2c' \ s2c :
          /\ r.kind = EchoReply
          /\ \E d \in c2s \ c2s' :
                /\ d.kind = EchoRequest
                /\ r.seq = d.seq
                /\ r.ts = d.ts
                /\ r.size = d.size]_vars

C15_Witness ==
    \E r \in s2c : r.kind = EchoReply /\ r.seq = <<1, 0, 0, 0>> /\ r.ts \in WallClocks /\ r.size = 1

----------------------------------------------------------------------------
(* SpecCodec: to_bytes and from_bytes applied to a packet with a payload    *)
(* of given bytes.                                                          *)

\* the PacketType variant indices: Data, Ack, Control, EchoRequest, EchoReply
PacketTypes == 0..4

\* wire timestamps explored
CodecStamps == WallClocks \cup {<<0, 0, 0, 0, 0, 0, 0, 0>>, <<255, 255, 255, 255, 255, 255, 255, 255>>}

\* payloads explored
Payloads == {<<>>, <<0>>, <<7>>, <<255, 1>>, <<0, 0, 9>>}

\* the packets explored
Packets ==
    [seq : SeqSamples, ts : CodecStamps, kind : PacketTypes, payload : Payloads]

\* CustomPacket::to_bytes: the 24 bytes before the payload, then the payload
to_bytes(p) ==
    LET h == [seq |-> p.seq, ts |-> p.ts, kind |-> p.kind, size |-> Len(p.payload)]
    IN  [i \in 1..(HeaderLen + Len(p.payload)) |->
            IF i <= HeaderLen THEN EncodedByte(h, i - 1) ELSE p.payload[i - HeaderLen]]

\* CustomPacket::from_bytes on a byte sequence: <<"Err">>, or <<"Ok", packet>>
\* with the payload bytes the header announces
from_bytes_seq(b) ==
    LET n == Len(b)
        r == from_bytes([j \in 0..(Min(n, HeaderLen) - 1) |-> b[j + 1]], n)
    IN  IF is_none(r) THEN <<"Err">>
        ELSE <<"Ok", [seq |-> unwrap(r).seq, ts |-> unwrap(r).ts, kind |-> unwrap(r).kind,
                      payload |-> SubSeq(b, HeaderLen + 1, HeaderLen + unwrap(r).size)]>>

CodecInit ==
    /\ now = 0
    /\ MetricsIdle
    /\ RunIdle
    /\ NetIdle
    /\ SingleIdle
    /\ LockIdle
    /\ PaceIdle
    /\ p_in \in Packets
    /\ p_bytes = <<>>
    /\ p_out = <<>>

PacketToBytes ==
    /\ p_bytes = <<>>
    /\ p_bytes' = <<to_bytes(p_in)>>
    /\ UNCHANGED <<now, metricsVars, runVars, netVars, singleVars, lockVars, paceVars, p_in, p_out>>

PacketFromBytes ==
    /\ p_bytes # <<>>
    /\ p_out = <<>>
    /\ p_out' = from_bytes_seq(p_bytes[1])
    /\ UNCHANGED <<now, metricsVars, runVars, netVars, singleVars, lockVars, paceVars, p_in, p_bytes>>

CodecNext ==
    \/ PacketToBytes
    \/ PacketFromBytes

SpecCodec == CodecInit /\ [][CodecNext]_vars

\* C16: for every well-formed packet, from_bytes(to_bytes(p)) succeeds and
\* yields the same sequence number, timestamp, kind and payload.
C16_RoundTrip ==
    p_out # <<>> => p_out = <<"Ok", p_in>>

C16_Witness ==
    /\ p_out = <<"Ok", p_in>>
    /\ p_in.seq = <<255, 255, 255, 127>>
    /\ p_in.kind = EchoReply
    /\ p_in.payload = <<255, 1>>
    /\ Len(p_bytes[1]) = HeaderLen + 2

\* C17: with tick-rate 0 a UDP client run does not fail at start-up: once its
\* socket is bound and connected the send loop sends back to back until the
\* test duration has elapsed, and the run returns Ok with packets_sent >= 1.
C17_AfapRunReturnsOk ==
    (cfg.protocol = "Udp" /\ cfg.tick_rate_hz = 0 /\ cpc = "done")
    => (cres = Ok /\ cm.packets_sent >= 1)

\* C18: after a paced client run (UDP or TCP) of D seconds at H Hz has
\* completed, the client's packets_sent equals D * H.
C18_PacedRunSendsDH ==
    (cfg.tick_rate_hz > 0 /\ cpc = "done" /\ cres = Ok)
    => cm.packets_sent = total_duration(cfg) * cfg.tick_rate_hz

----------------------------------------------------------------------------
(* SpecSingle: two peers, both Bidirectional / Tcp / SingleStream, each     *)
(* with the other as its target; lines 208-230 of run_network_test.         *)
(* A string is the sequence of its bytes (ASCII codes).                     *)

Peers == {1, 2}

Other(p) == 3 - p

\* the hosts' addresses
Hosts == { <<10, 0, 0, 1>>, <<10, 0, 0, 2>>, <<192, 168, 1, 5>> }

Loopback == <<127, 0, 0, 1>>

Unspecified == <<0, 0, 0, 0>>

Ports == {80, 5001}

\* the decimal digits of n, as `{}` formats an integer
RECURSIVE Decimal(_)
Decimal(n) == IF n < 10 THEN <<48 + n>> ELSE Append(Decimal(n \div 10), 48 + (n % 10))

\* SocketAddr::to_string() of an IPv4 address and port, which is also
\* format!("{}:{}", ip, port) of a canonical ip: "a.b.c.d:port"
DisplayV4(ip, port) ==
    Decimal(ip[1]) \o <<46>> \o Decimal(ip[2]) \o <<46>> \o Decimal(ip[3]) \o <<46>>
        \o Decimal(ip[4]) \o <<58>> \o Decimal(port)

\* a < b on String: byte-wise lexicographic order, a proper prefix being smaller
StrLess(a, b) ==
    \E i \in 1..(Min(Len(a), Len(b)) + 1) :
        /\ \A j \in 1..(i - 1) : a[j] = b[j]
        /\ \/ i > Len(a) /\ i <= Len(b)
           \/ i <= Len(a) /\ i <= Len(b) /\ a[i] < b[i]

\* line 208: format!("0.0.0.0:{}", local_listen_port), local_listen_port being target_port
local_addr_for_comparison(c) == DisplayV4(Unspecified, c.target_port)

\* line 209: local_addr_for_comparison < remote_addr.to_string()
initiates(c) == StrLess(local_addr_for_comparison(c), DisplayV4(c.target_ip, c.target_port))

\* the addresses by which a peer on host `from` reaches a peer on host `to`
\* (on its own host also by the loopback address and by 0.0.0.0)
AddressesOf(from, to) == {to} \cup (IF from = to THEN {Loopback, Unspecified} ELSE {})

\* the pairs of peers in which each targets the other: each one's target_ip
\* reaches the other's host and its target_port is the port the other listens on
PeerConfigs ==
    { pc \in [Peers -> [host : Hosts, target_ip : Hosts \cup {Loopback, Unspecified}, target_port : Ports]] :
        /\ pc[1].target_port = pc[2].target_port
        /\ \A p \in Peers : pc[p].target_ip \in AddressesOf(pc[p].host, pc[Other(p)].host) }

SingleInit ==
    /\ now = 0
    /\ MetricsIdle
    /\ RunIdle
    /\ NetIdle
    /\ CodecIdle
    /\ LockIdle
    /\ PaceIdle
    /\ peer_cfg \in PeerConfigs
    /\ peer_pc = [p \in Peers |-> "start"]
    /\ should_initiate_connection = [p \in Peers |-> None]
    /\ streams = {}

notSingle == <<now, metricsVars, runVars, netVars, codecVars, lockVars, paceVars>>

\* lines 208-217: the peer decides whether it connects or listens
Elect ==
    \E p \in Peers :
        /\ peer_pc[p] = "start"
        /\ should_initiate_connection' =
               [should_initiate_connection EXCEPT ![p] = Some(initiates(peer_cfg[p]))]
        /\ peer_pc' = [peer_pc EXCEPT ![p] = IF initiates(peer_cfg[p]) THEN "connect" ELSE "listen"]
        /\ UNCHANGED <<peer_cfg, streams>>
        /\ UNCHANGED notSingle

\* line 219: tcp_connect succeeds, the other peer's listener being bound
PeerConnect ==
    \E p \in Peers :
        /\ peer_pc[p] = "connect"
        /\ peer_pc[Other(p)] = "accept"
        /\ streams' = streams \cup {<<p, Other(p)>>}
        /\ peer_pc' = [peer_pc EXCEPT ![p] = "stream"]
        /\ UNCHANGED <<peer_cfg, should_initiate_connection>>
        /\ UNCHANGED notSingle

\* line 219: tcp_connect is refused, nothing listening at the target; `?` returns
PeerConnectErr ==
    \E p \in Peers :
        /\ peer_pc[p] = "connect"
        /\ peer_pc[Other(p)] # "accept"
        /\ peer_pc' = [peer_pc EXCEPT ![p] = "failed"]
        /\ UNCHANGED <<peer_cfg, should_initiate_connection, streams>>
        /\ UNCHANGED notSingle

\* the listen port is taken: the other peer is on the same host and has its
\* listener bound
PortInUse(p) ==
    /\ peer_cfg[p].host = peer_cfg[Other(p)].host
    /\ peer_pc[Other(p)] = "accept"

\* line 223: tcp_listen binds the listener
PeerListen ==
    \E p \in Peers :
        /\ peer_pc[p] = "listen"
        /\ ~PortInUse(p)
        /\ peer_pc' = [peer_pc EXCEPT ![p] = "accept"]
        /\ UNCHANGED <<peer_cfg, should_initiate_connection, streams>>
        /\ UNCHANGED notSingle

\* line 223: tcp_listen fails; `?` returns
PeerListenErr ==
    \E p \in Peers :
        /\ peer_pc[p] = "listen"
        /\ PortInUse(p)
        /\ peer_pc' = [peer_pc EXCEPT ![p] = "failed"]
        /\ UNCHANGED <<peer_cfg, should_initiate_connection, streams>>
        /\ UNCHANGED notSingle

\* lines 225-230: accept returns the connection; the listener is dropped
PeerAccept ==
    \E p \in Peers :
        /\ peer_pc[p] = "accept"
        /\ <<Other(p), p>> \in streams
        /\ peer_pc' = [peer_pc EXCEPT ![p] = "stream"]
        /\ UNCHANGED <<peer_cfg, should_initiate_connection, streams>>
        /\ UNCHANGED notSingle

SingleNext ==
    \/ Elect
    \/ PeerConnect
    \/ PeerConnectErr
    \/ PeerListen
    \/ PeerListenErr
    \/ PeerAccept

SpecSingle == SingleInit /\ [][SingleNext]_vars

\* C19: in Bidirectional TCP SingleStream mode, for any two peers that each
\* target the other, exactly one peer connects and the other accepts, and
\* once neither peer is still setting up exactly one stream is established.
C19_ExactlyOneConnects ==
    /\ (\A p \in Peers : is_some(should_initiate_connection[p]))
       => \E p \in Peers : /\ unwrap(should_initiate_connection[p])
                           /\ ~unwrap(should_initiate_connection[Other(p)])
    /\ (\A p \in Peers : peer_pc[p] \in {"stream", "failed"})
       => Cardinality(streams) = 1

\* C20: client/server runs are unidirectional: in the server role (UDP or
\* TCP) nothing ever increments packets_sent or bytes_sent, the echo replies
\* included, and in the TCP client role nothing ever increments
\* packets_received or bytes_received.
C20_Unidirectional ==
    /\ sm.packets_sent = 0
    /\ sm.bytes_sent = 0
    /\ cfg.protocol = "Tcp" => (cm.packets_received = 0 /\ cm.bytes_received = 0)

C20_Witness ==
    /\ cfg.protocol = "Udp"
    /\ sm.packets_received = 2
    /\ \E r \in s2c : r.kind = EchoReply
    /\ cm.packets_received = 1
    /\ sm.packets_sent = 0
    /\ sm.bytes_sent = 0

----------------------------------------------------------------------------
(* Properties of the dispatcher's start *)

\* C21: when the target address of a Client or Bidirectional run cannot be
\* parsed, run returns InvalidAddress before any socket is created or task
\* spawned: no loop or task was started, no step failed before, no packet is
\* sent or received and all counters are 0.
C21_InvalidAddressBeforeIo ==
    result = Err("InvalidAddress") =>
        /\ rpc = "done"
        /\ ParsesTarget(rmode)
        /\ \A l \in LoopIds : loops[l] = "none"
        /\ \A h \in HandleIds : handles[h] = "none"
        /\ failures = <<>>
        /\ m.packets_sent = 0 /\ m.bytes_sent = 0
        /\ m.packets_received = 0 /\ m.bytes_received = 0
        /\ m.rtt_count = 0 /\ m.jitter_count = 0 /\ m.out_of_order_count = 0
        /\ m.bandwidth_samples = <<>> /\ m.anomalies = <<>>

C21_Witness ==
    /\ result = Err("InvalidAddress")
    /\ rmode = "BidiDual"
    /\ is_some(m.test_start_time)
    /\ m.packets_sent = 0

----------------------------------------------------------------------------
(* SpecLock: the two tasks of a Bidirectional UDP run (network.rs lines     *)
(* 105-118), udp_send_loop and udp_receive_loop, sharing one                *)
(* Arc<Mutex<TestMetrics>>.  A task is about to lock at a source line       *)
(* (k = "lock"), inside the guard's scope (k = "hold"), or suspended at an  *)
(* .await (k = "await").  What a task writes through its guard is computed  *)
(* from the value the guard gave it when it was acquired.                   *)

\* the loop iterations each task begins
MaxLockIters == 2

Tasks == {"send", "recv"}

At(k, s) == [k |-> k, s |-> s]

\* the `metrics.lock().unwrap()` statements, by line
UnwrapSites == {269, 327, 349, 384, 419}

\* the `if let Ok(mut metrics_guard) = metrics.lock()` statements, by line
TrySites == {400, 477}

\* the mutant of CanLock: lock() does not wait for the mutex to be free
CanLockAlways(holder) == TRUE

\* Mutex::lock returns only when no guard is alive
CanLock(holder) == is_none(holder)

\* the mutant of GuardDropped: the guard outlives its statement or scope
GuardKept(t) == Some(t)

\* the holder after a task's guard goes out of scope: the temporary of a
\* `metrics.lock().unwrap().f()` statement at the end of the statement, the
\* named guard at the end of its block (line 438, and lines 405 and 482)
GuardDropped(t) == None

\* the `while` test of udp_send_loop (line 286), by the iterations begun
LoopTest(iters) == IF iters < MaxLockIters THEN At("await", 289) ELSE At("done", 0)

\* where a task goes when the guard of the lock at line s is gone
AfterSection(s, iters) ==
    CASE s = 269 -> LoopTest(iters)
      [] s = 327 -> At("await", 342)
      [] s = 349 -> LoopTest(iters)
      [] s = 384 -> At("await", 395)
      [] s = 400 -> At("done", 0)
      [] s = 419 -> At("await", 450)
      [] s = 477 -> At("await", 395)

\* where a task can resume when the .await at line s completes: the tick, then
\* socket.send; the reply or its timeout; the three branches of select!; send_to
AfterAwait(s, iters) ==
    CASE s = 289 -> {At("await", 325)}
      [] s = 325 -> {At("lock", 327)}
      [] s = 342 -> {At("lock", 349), LoopTest(iters)}
      [] s = 395 -> {At("lock", 400)}
                    \cup (IF iters < MaxLockIters THEN {At("lock", 419), At("lock", 477)} ELSE {})
      [] s = 450 -> {At("await", 395)}

\* what the statements under the guard of the lock at line s do to the metrics
SectionEffect(s, mt, t) ==
    CASE s = 327 -> record_packet_sent(mt, 88, t)
      [] s = 349 -> record_packet_received(mt, 88, 1000, t)
      [] s = 419 -> record_packet_received(mt, 88, 0, t)
      [] s \in TrySites ->
            IF is_some(mt.test_start_time)
            THEN take_bandwidth_sample(mt, ElapsedMs(t, unwrap(mt.test_start_time)), t)
            ELSE mt
      [] OTHER -> mt

\* the calls counted after the section of the lock at line s
CallsAfter(s, c) ==
    CASE s = 327 -> [c EXCEPT !.sent = @ + 1, !.bytes_sent = @ + 88]
      [] s \in {349, 419} -> [c EXCEPT !.received = @ + 1, !.bytes_received = @ + 88]
      [] OTHER -> c

LockInit ==
    /\ now = 0
    /\ MetricsIdle
    /\ RunIdle
    /\ NetIdle
    /\ CodecIdle
    /\ SingleIdle
    /\ PaceIdle
    /\ lk_m = RunStartMetrics(RunConfig, 0)
    /\ lk_holder = None
    /\ lk_poisoned = FALSE
    /\ lk_pc = [t \in Tasks |-> IF t = "send" THEN At("lock", 269) ELSE At("lock", 384)]
    /\ lk_guard = [t \in Tasks |-> NewMetrics]
    /\ lk_iter = [t \in Tasks |-> 0]
    /\ lk_calls = [sent |-> 0, bytes_sent |-> 0, received |-> 0, bytes_received |-> 0]

notLock == <<now, metricsVars, runVars, netVars, codecVars, singleVars, paceVars>>

\* metrics.lock() returns Ok(guard)
LockAcquire ==
    \E t \in Tasks :
        /\ lk_pc[t].k = "lock"
        /\ CanLock(lk_holder)
        /\ ~lk_poisoned
        /\ lk_holder' = Some(t)
        /\ lk_guard' = [lk_guard EXCEPT ![t] = lk_m]
        /\ lk_pc' = [lk_pc EXCEPT ![t] = At("hold", lk_pc[t].s)]
        /\ UNCHANGED <<lk_m, lk_poisoned, lk_iter, lk_calls>>
        /\ UNCHANGED notLock

\* metrics.lock() returns Err(PoisonError): unwrap() panics, `if let Ok` skips its block
LockPoisoned ==
    \E t \in Tasks :
        /\ lk_pc[t].k = "lock"
        /\ CanLock(lk_holder)
        /\ lk_poisoned
        /\ lk_pc' = [lk_pc EXCEPT ![t] = IF lk_pc[t].s \in UnwrapSites
                                        THEN At("panicked", lk_pc[t].s)
                                        ELSE AfterSection(lk_pc[t].s, lk_iter[t])]
        /\ UNCHANGED <<lk_m, lk_holder, lk_poisoned, lk_guard, lk_iter, lk_calls>>
        /\ UNCHANGED notLock

\* the statements under the guard run and the guard is dropped
Section ==
    \E t \in Tasks :
        /\ lk_pc[t].k = "hold"
        /\ lk_m' = IF lk_pc[t].s \in {269, 384} THEN lk_m
                   ELSE SectionEffect(lk_pc[t].s, lk_guard[t], now)
        /\ lk_calls' = CallsAfter(lk_pc[t].s, lk_calls)
        /\ lk_holder' = GuardDropped(t)
        /\ lk_pc' = [lk_pc EXCEPT ![t] = AfterSection(lk_pc[t].s, lk_iter[t])]
        /\ UNCHANGED <<lk_poisoned, lk_guard, lk_iter>>
        /\ UNCHANGED notLock

\* lines 419-424 on a datagram that is not the first: record_packet_received,
\* then `u32::MAX * 3 / 4` panics (overflow checks on, current_seq below
\* u32::MAX / 4); unwinding drops the guard and poisons the mutex
SectionPanic ==
    /\ lk_pc["recv"] = At("hold", 419)
    /\ lk_iter["recv"] >= 2
    /\ lk_m' = SectionEffect(419, lk_guard["recv"], now)
    /\ lk_calls' = CallsAfter(419, lk_calls)
    /\ lk_poisoned' = TRUE
    /\ lk_holder' = None
    /\ lk_pc' = [lk_pc EXCEPT !["recv"] = At("panicked", 424)]
    /\ UNCHANGED <<lk_guard, lk_iter>>
    /\ UNCHANGED notLock

\* an .await completes and the task runs to its next lock or .await
Resume ==
    \E t \in Tasks :
        /\ lk_pc[t].k = "await"
        /\ \E next \in AfterAwait(lk_pc[t].s, lk_iter[t]) :
              /\ lk_pc' = [lk_pc EXCEPT ![t] = next]
              /\ lk_iter' = [lk_iter EXCEPT ![t] =
                                IF lk_pc[t].s = 289 \/ next.s \in {419, 477} THEN @ + 1 ELSE @]
        /\ UNCHANGED <<lk_m, lk_holder, lk_poisoned, lk_guard, lk_calls>>
        /\ UNCHANGED notLock

LockNext ==
    \/ LockAcquire
    \/ LockPoisoned
    \/ Section
    \/ SectionPanic
    \/ Resume

SpecLock == LockInit /\ [][LockNext]_vars

\* C22: aggregator operations are atomic with respect to concurrent callers:
\* under any interleaving of the tasks of one run no update is lost, so
\* packets_sent equals the number of record_packet_sent calls made by all
\* tasks, packets_received the number of record_packet_received calls, and
\* the byte counters the bytes those calls passed.
C22_NoLostUpdate ==
    /\ lk_m.packets_sent = lk_calls.sent
    /\ lk_m.bytes_sent = lk_calls.bytes_sent
    /\ lk_m.packets_received = lk_calls.received
    /\ lk_m.bytes_received = lk_calls.bytes_received

C22_Witness ==
    /\ \A t \in Tasks : lk_pc[t].k = "done"
    /\ lk_calls.sent = 2
    /\ lk_calls.received = 4
    /\ lk_m.packets_received = 4

----------------------------------------------------------------------------
(* Properties of single aggregator calls: `call` is the call made last and  *)
(* `before` the value it was made on.                                       *)

\* the last call was the operation `name`
Called(name) == call # <<>> /\ call[1] = name

\* C24: init_start_time is idempotent: a call on metrics without a start
\* instant records it, zeroes the partial bandwidth accumulator and sets the
\* last-sample timestamp to 0, and changes nothing else; every later call
\* leaves every field unchanged, and no other operation moves a start instant
\* that is set.
C24_InitStartIdempotent ==
    /\ (Called("init_start_time") /\ is_none(before.test_start_time))
       => /\ is_some(m.test_start_time)
          /\ unwrap(m.test_start_time) <= now
          /\ m = [before EXCEPT !.test_start_time = m.test_start_time,
                                !.last_bandwidth_sample_time_ms = Some(0),
                                !.bytes_since_last_bandwidth_sample = 0]
    /\ (Called("init_start_time") /\ is_some(before.test_start_time)) => m = before
    /\ is_some(before.test_start_time) => m.test_start_time = before.test_start_time

C24_Witness ==
    /\ Called("init_start_time")
    /\ is_some(before.test_start_time)
    /\ now > unwrap(m.test_start_time)
    /\ m.bytes_since_last_bandwidth_sample > 0
    /\ m.last_bandwidth_sample_time_ms # Some(0)

\* the receive counters of a TestMetrics
ReceiveFields(mt) == <<mt.packets_received, mt.bytes_received>>

\* the RTT statistics
RttFields(mt) ==
    <<mt.total_rtt_micros, mt.rtt_count, mt.min_rtt_micros, mt.max_rtt_micros, mt.last_rtt_micros>>

\* the jitter statistics
JitterFields(mt) == <<mt.inter_arrival_jitter_micros_sum, mt.jitter_count>>

\* the bandwidth fields; a last-sample timestamp that was never written reads
\* as 0, as take_bandwidth_sample reads it
BandwidthFields(mt) ==
    <<mt.bandwidth_samples, mt.bytes_since_last_bandwidth_sample,
      unwrap_or(mt.last_bandwidth_sample_time_ms, 0)>>

\* the anomaly log, its thresholds and the out-of-order counter
AnomalyFields(mt) ==
    <<mt.anomalies, mt.latency_spike_threshold_micros, mt.jitter_spike_threshold_micros,
      mt.out_of_order_count>>

C26_RecordReceivedFrame ==
    Called("record_packet_received") =>
        /\ m.packets_received = before.packets_received + 1
        /\ m.bytes_received = before.bytes_received + call[2]
        /\ m.bytes_since_last_bandwidth_sample = before.bytes_since_last_bandwidth_sample + call[2]
        /\ call[3] = 0 => /\ RttFields(m) = RttFields(before)
                          /\ JitterFields(m) = JitterFields(before)
                          /\ m.anomalies = before.anomalies
        /\ call[3] > 0 => /\ m.total_rtt_micros = before.total_rtt_micros + call[3]
                          /\ m.rtt_count = before.rtt_count + 1
                          /\ m.last_rtt_micros = Some(call[3])

C26_Witness ==
    /\ Called("record_packet_received")
    /\ call[2] = 64
    /\ call[3] = 0
    /\ before.rtt_count = 2
    /\ before.jitter_count = 1
    /\ m.packets_received = 3

\* the number of anomalies of one type in the log
CountType(mt, type) ==
    Cardinality({i \in 1..Len(mt.anomalies) : mt.anomalies[i].anomaly_type = type})

\* C27: a latency threshold of T ms is stored as T * 1000 microseconds; each
\* record_packet_received whose rtt_us is strictly greater than the stored
\* threshold appends exactly one HighLatencySpike anomaly (the last entry of
\* the log, carrying that RTT), and a sample with rtt_us <= the threshold, or
\* any sample when no threshold is set, appends none.
C27_LatencySpikeExactly ==
    /\ Called("configure_anomaly_detection")
       => m.latency_spike_threshold_micros =
              (IF is_some(call[2]) THEN Some(unwrap(call[2]) * 1000) ELSE None)
    /\ Called("record_packet_received")
       => LET threshold == before.latency_spike_threshold_micros
              spike == is_some(threshold) /\ call[3] > unwrap(threshold)
          IN  /\ CountType(m, "HighLatencySpike")
                     = CountType(before, "HighLatencySpike") + (IF spike THEN 1 ELSE 0)
              /\ spike => /\ m.anomalies[Len(m.anomalies)].anomaly_type = "HighLatencySpike"
                          /\ m.anomalies[Len(m.anomalies)].description = call[3]

C27_Witness ==
    /\ Called("record_packet_received")
    /\ call[3] = 5000
    /\ before.latency_spike_threshold_micros = Some(1000)
    /\ CountType(before, "HighLatencySpike") = 0
    /\ CountType(m, "HighLatencySpike") = 1
    /\ before.packets_received = 1

\* the jitter samples that did not come from a pair of consecutive RTT samples
DirectJitter(mt) == mt.jitter_count - Max(mt.rtt_count - 1, 0)

\* the absolute difference of two RTT samples, as the claim words it
AbsDiff(a, b) == Max(a, b) - Min(a, b)

\* C28: every record_packet_received with rtt_us > 0 other than the first
\* contributes exactly one jitter sample |rtt_us - previous rtt| and the first
\* contributes none, so only direct record_jitter_value calls move
\* jitter_count away from rtt_count - 1; a JitterSpike anomaly is appended
\* exactly when a jitter threshold is set and the sample strictly exceeds it.
C28_JitterSamples ==
    /\ Called("record_packet_received") /\ call[3] > 0
       => LET first == before.rtt_count = 0
              sample == AbsDiff(call[3], unwrap(before.last_rtt_micros))
              threshold == before.jitter_spike_threshold_micros
              spike == ~first /\ is_some(threshold) /\ sample > unwrap(threshold)
          IN  /\ first <=> is_none(before.last_rtt_micros)
              /\ first => /\ m.jitter_count = before.jitter_count
                          /\ m.inter_arrival_jitter_micros_sum
                                 = before.inter_arrival_jitter_micros_sum
              /\ ~first => /\ m.jitter_count = before.jitter_count + 1
                           /\ m.inter_arrival_jitter_micros_sum
                                  = before.inter_arrival_jitter_micros_sum + sample
              /\ CountType(m, "JitterSpike")
                     = CountType(before, "JitterSpike") + (IF spike THEN 1 ELSE 0)
              /\ spike => \E i \in 1..Len(m.anomalies) :
                              /\ i > Len(before.anomalies)
                              /\ m.anomalies[i].anomaly_type = "JitterSpike"
                              /\ m.anomalies[i].description = sample
    /\ Called("record_jitter_value")
       => LET threshold == before.jitter_spike_threshold_micros
              spike == is_some(threshold) /\ call[2] > unwrap(threshold)
          IN  /\ DirectJitter(m) = DirectJitter(before) + 1
              /\ CountType(m, "JitterSpike")
                     = CountType(before, "JitterSpike") + (IF spike THEN 1 ELSE 0)
    /\ call # <<>> /\ ~Called("record_jitter_value")
       => DirectJitter(m) = DirectJitter(before)
    /\ DirectJitter(m) >= 0

C28_Witness ==
    /\ Called("record_packet_received")
    /\ call[3] = 500
    /\ before.last_rtt_micros = Some(5000)
    /\ before.jitter_spike_threshold_micros = Some(1000)
    /\ before.rtt_count = 1
    /\ m.rtt_count = 2
    /\ m.jitter_count = 1
    /\ m.inter_arrival_jitter_micros_sum = 4500
    /\ CountType(m, "JitterSpike") = 1

\* what every take_bandwidth_sample call does after the push decision
SampleReset(elapsed_ms) ==
    /\ m.bytes_since_last_bandwidth_sample = 0
    /\ m.last_bandwidth_sample_time_ms = Some(elapsed_ms)

\* C29: every call take_bandwidth_sample(elapsed_ms) appends the pair
\* (elapsed_ms, partial accumulator) to bandwidth_samples, resets the
\* accumulator to zero and sets last-sample-timestamp to elapsed_ms; it never
\* modifies or removes earlier samples.
C29_EveryCallAppends ==
    Called("take_bandwidth_sample")
    => /\ m.bandwidth_samples
              = Append(before.bandwidth_samples,
                       <<call[2], before.bytes_since_last_bandwidth_sample>>)
       /\ SampleReset(call[2])

\* C29 (amended): a call take_bandwidth_sample(elapsed_ms) appends the pair
\* (elapsed_ms, partial accumulator) when the accumulator is positive or
\* elapsed_ms is greater than the last-sample-timestamp (0 when there is
\* none) and leaves bandwidth_samples as it was otherwise; in both cases it
\* resets the accumulator to zero and sets last-sample-timestamp to
\* elapsed_ms, and earlier samples are neither modified nor removed.
C29_AppendsWhenBytesOrLater ==
    Called("take_bandwidth_sample")
    => LET bytes == before.bytes_since_last_bandwidth_sample
           last == unwrap_or(before.last_bandwidth_sample_time_ms, 0)
       IN  /\ m.bandwidth_samples
                  = (IF bytes > 0 \/ call[2] > last
                     THEN Append(before.bandwidth_samples, <<call[2], bytes>>)
                     ELSE before.bandwidth_samples)
           /\ SampleReset(call[2])
           /\ Len(m.bandwidth_samples) >= Len(before.bandwidth_samples)
           /\ \A i \in 1..Len(before.bandwidth_samples) :
                  m.bandwidth_samples[i] = before.bandwidth_samples[i]

\* C29 witness: a call with an empty accumulator and an elapsed-ms no later
\* than the last sample kept the one earlier sample and pushed nothing
C29_Witness ==
    /\ Called("take_bandwidth_sample")
    /\ call[2] = 1000
    /\ before.last_bandwidth_sample_time_ms = Some(1000)
    /\ before.bytes_since_last_bandwidth_sample = 0
    /\ before.bandwidth_samples = <<<<1000, 64>>>>
    /\ m.bandwidth_samples = before.bandwidth_samples
    /\ m.last_bandwidth_sample_time_ms = Some(1000)

----------------------------------------------------------------------------
(* SpecHook: the Ok arm of the thread on_start_test_clicked spawns          *)
(* (main.rs lines 101-133), applied to the TestMetrics a successful run     *)
(* left behind.  The f64 loss percentage is the exact quotient Ratio gives, *)
(* rounded as IEEE 754 rounds the division and the multiplication by 100.0. *)

\* packets_sent / packets_received of the final metrics
SentCounts == {0, 1, 100}

ReceivedCounts == {0, 1, 71, 90, 95, 96, 100, 101}

\* config.packet_loss_threshold_percent, Option<f64>, in whole percents
LossThresholds == {None, Some(5), Some(29)}

\* the whole percents T for which (T as f64 / 100.0) * 100.0 is below T:
\* 28.999999999999996, 56.99999999999999 and 57.99999999999999
RoundedBelow == {29, 57, 58}

\* `loss_percentage >= loss_threshold_percent` on the f64 values: the rounding
\* of loss_percentage decides when the exact quotient equals the threshold
loss_reaches(p, loss_threshold_percent) ==
    \/ p.num > loss_threshold_percent * p.den
    \/ /\ p.num = loss_threshold_percent * p.den
       /\ loss_threshold_percent \notin RoundedBelow

\* `{:.2}` of the loss percentage, in hundredths of a percent
Hundredths(p) == (200 * p.num + p.den) \div (2 * p.den)

\* the description "High packet loss detected: {:.2}% (threshold: {}%)"
LossDescription(p, loss_threshold_percent) ==
    [loss_hundredths |-> Hundredths(p), threshold |-> loss_threshold_percent]

\* main.rs lines 116-133
post_run_hook(mt, threshold, t) ==
    IF is_some(threshold) /\ loss_reaches(packet_loss_percentage(mt), unwrap(threshold))
    THEN [mt EXCEPT !.anomalies =
             Append(@, AnomalyEvent(AnomalyTimeMs(mt, t), "PacketLoss",
                                    LossDescription(packet_loss_percentage(mt),
                                                    unwrap(threshold))))]
    ELSE mt

\* the final metrics of a run that started at time 0 and returned Ok
FinalMetrics(sent, received, earlier) ==
    [init_start_time(NewMetrics, 0) EXCEPT !.packets_sent = sent,
                                           !.packets_received = received,
                                           !.anomalies = earlier]

HookInit ==
    /\ now \in 1..MaxNow
    /\ \E sent \in SentCounts, received \in ReceivedCounts,
          earlier \in {<<>>, <<AnomalyEvent(0, "OutOfOrder", 0)>>} :
           m = FinalMetrics(sent, received, earlier)
    /\ ops = 0
    /\ takeArgs = <<>>
    /\ call = <<>>
    /\ before = NewMetrics
    /\ loss = None
    /\ RunIdle
    /\ NetIdle
    /\ CodecIdle
    /\ SingleIdle
    /\ LockIdle
    /\ PaceIdle

PostRunHook ==
    /\ call = <<>>
    /\ \E threshold \in LossThresholds :
           /\ m' = post_run_hook(m, threshold, now)
           /\ call' = <<"post_run_hook", threshold>>
           /\ loss' = IF is_some(threshold) THEN Some(packet_loss_percentage(m)) ELSE None
    /\ before' = m
    /\ ops' = ops + 1
    /\ UNCHANGED <<now, takeArgs>>
    /\ UNCHANGED notMetrics

HookNext ==
    \/ PostRunHook

SpecHook == HookInit /\ [][HookNext]_vars

\* C31: after a successful run with a loss threshold configured, the post-run
\* hook appends exactly one PacketLoss anomaly, reporting the loss against
\* the threshold, when the loss percentage 100 * max(0, sent - received) / sent
\* reaches the threshold, and appends none when the loss is below the
\* threshold or no threshold is set.
C31_LossAnomalyWhenReached ==
    Called("post_run_hook")
    => LET threshold == call[2]
           sent == before.packets_sent
           lost == Max(0, sent - before.packets_received)
           reached == /\ is_some(threshold)
                      /\ IF sent = 0 THEN 0 >= unwrap(threshold)
                                     ELSE 100 * lost >= unwrap(threshold) * sent
       IN  /\ CountType(m, "PacketLoss")
                  = CountType(before, "PacketLoss") + (IF reached THEN 1 ELSE 0)
           /\ Len(m.anomalies) = Len(before.anomalies) + (IF reached THEN 1 ELSE 0)

----------------------------------------------------------------------------
(* Properties of the UDP send loop and the UDP receive loop (under Spec) *)

\* C32: in a basic UDP Client/Server run the client's packets_received stays
\* 0: the client does not count any incoming UDP packet.
C32_ClientCountsNoDatagram ==
    cfg.protocol = "Udp" => cm.packets_received = 0

\* the datagram d, read into a buffer of buf bytes, decodes
DecodesIn(d, buf) ==
    is_some(from_bytes(EncodedHead(d, Min(EncodedLen(d), buf)), Min(EncodedLen(d), buf)))

\* a step of udp_send_loop that ends its wait for the reply
ReplyWaitEnds == cpc = "reply" /\ cpc' # "reply"

\* C33: the UDP send loop calls record_packet_received only for a datagram
\* that decodes to an EchoReply whose sequence number equals that of the
\* request just sent; a reply of another kind or with another sequence
\* number, a malformed datagram or a timeout counts no receipt, so on the
\* sender packets_received <= packets_sent and rtt_count <= packets_sent in
\* every reachable state.
C33_OnlyMatchingReplyCounts ==
    /\ [](/\ cm.packets_received <= cm.packets_sent
          /\ cm.rtt_count <= cm.packets_sent)
    /\ [][/\ cm'.packets_received # cm.packets_received => ReplyWaitEnds
          /\ ReplyWaitEnds =>
                LET matching == {d \in s2c : /\ s2c' = s2c \ {d}
                                             /\ DecodesIn(d, RecvBuf)
                                             /\ d.kind = EchoReply
                                             /\ d.seq = cseq}
                IN  IF matching # {}
                    THEN /\ cm'.packets_received = cm.packets_received + 1
                         /\ \A d \in matching :
                                cm'.bytes_received = cm.bytes_received + EncodedLen(d)
                    ELSE cm' = cm]_vars

\* C33 witness: the server answered two requests; the sender counted one
\* reply and ended the wait for the other (no longer in flight) without a receipt
C33_Witness ==
    /\ cfg.protocol = "Udp"
    /\ cm.packets_sent = 2
    /\ cm.packets_received = 1
    /\ cm.rtt_count = 1
    /\ sm.packets_received = 2
    /\ s2c = {}
    /\ cpc # "reply"

\* C34: for each datagram the UDP receive loop decodes, it sends exactly one
\* EchoReply back to the datagram's source address when the kind is
\* EchoRequest and sends nothing for any other kind; a failure of that send
\* does not terminate the loop and does not change any metric.
C34_OneReplyPerRequest ==
    [][\A d \in c2s :
          Decodes(d) =>
             /\ spc' = "urecv"
             /\ sres' = sres
             /\ sm'.packets_sent = sm.packets_sent
             /\ sm'.bytes_sent = sm.bytes_sent
             /\ IF d.kind = EchoRequest
                THEN /\ replies' = replies + 1
                     /\ s2c' \in {s2c \cup {new_echo_reply(d)}, s2c}
                ELSE /\ replies' = replies
                     /\ s2c' = s2c]_vars

\* a step in which the UDP receive loop's socket gives up datagram d, which
\* does not decode: it is longer than the loop's buffer, so its payload is cut
UdpUndecodable(d) ==
    /\ cfg.protocol = "Udp"
    /\ spc = "urecv"
    /\ d \in c2s /\ d \notin c2s'
    /\ ~DecodesIn(d, UdpBuf) \/ EncodedLen(d) > UdpBuf

\* a step in which the TCP receive loop has read a frame body that does not decode
TcpUndecodable ==
    /\ spc = "body"
    /\ spc' # "done"
    /\ rpos' # rpos
    /\ is_none(from_bytes(IncomingHead(packet_len), packet_len))

\* C35: a datagram (UDP) or frame body (TCP) that fails to decode is
\* discarded: it changes no counter, no highest-seen sequence and no anomaly,
\* no reply is sent for it, and the receive loop continues (in the state it
\* was in, so that later packets are processed as if it had not arrived).
C35_UndecodableDiscarded ==
    [][/\ \A d \in c2s :
             UdpUndecodable(d) =>
                /\ sm' = sm
                /\ highest' = highest
                /\ s2c' = s2c
                /\ replies' = replies
                /\ <<spc', sres', sexit', snext'>> = <<spc, sres, sexit, snext>>
       /\ TcpUndecodable =>
             /\ sm' = sm
             /\ counted' = counted
             /\ rpos' = rpos + packet_len
             /\ spc' = "select"
             /\ <<sres', sexit', snext'>> = <<sres, sexit, snext>>]_vars

\* C35 witness: the client sent a 5000-byte payload and then a 3000-byte one;
\* the first is gone without a trace, the second was decoded, counted and answered
C35_Witness ==
    /\ cfg.protocol = "Udp"
    /\ cm.packets_sent = 2
    /\ cm.bytes_sent = 5024 + 3024
    /\ c2s = {}
    /\ sm.packets_received = 1
    /\ sm.bytes_received = 3024
    /\ highest = Some(<<1, 0, 0, 0>>)
    /\ replies = 1
    /\ spc = "urecv"

----------------------------------------------------------------------------
(* SpecPace: udp_send_loop as primary sender, alone, with its clock in      *)
(* milliseconds: the ticker (lines 276-277, 290), the send (lines 322-327)  *)
(* and the wait for the reply (line 342).  The loop starts at clock 0, the  *)
(* instant test_start_time was taken.                                       *)

\* the sends of one run that are explored
MaxPaceSends == 4

\* `Duration::from_millis(200)`, the timeout of the wait for the reply
ReplyTimeoutMs == 200

\* config.tick_rate_hz
PaceRates == {1, 4, 5, 10, 20}

\* config.total_duration(), in milliseconds (test_duration_secs = 1)
PaceDurationMs == 1000

\* the delays (ms) after which a reply that beats the timeout arrives
ReplyDelays == {1, 150}

\* config.tick_interval(), in milliseconds
tick_interval_ms(hz) == 1000 \div hz

\* line 342: tokio::time::timeout(Duration::from_millis(200), socket.recv(..))
reply_timeout(hz) == ReplyTimeoutMs

\* line 287: `while Instant::now().duration_since(test_start_time) < loop_duration`
PaceAfter(clock, sent) ==
    IF clock < PaceDurationMs /\ sent < MaxPaceSends THEN "tick" ELSE "done"

PaceInit ==
    /\ now = 0
    /\ MetricsIdle
    /\ RunIdle
    /\ NetIdle
    /\ CodecIdle
    /\ SingleIdle
    /\ LockIdle
    /\ \E hz \in PaceRates :
           pace = [hz |-> hz, pc |-> PaceAfter(0, 0), clock |-> 0,
                   next |-> tick_interval_ms(hz), sent |-> 0,
                   prev_send |-> None, last_send |-> None, waited |-> None]

notPace == <<now, metricsVars, runVars, netVars, codecVars, singleVars, lockVars>>

\* lines 290-327: t.tick().await returns at the ticker's deadline, or at once
\* when the deadline has passed (the ticker then catches up); the request is
\* sent and recorded
PaceSend ==
    /\ pace.pc = "tick"
    /\ LET at == Max(pace.clock, pace.next)
       IN  pace' = [pace EXCEPT !.pc = "wait",
                                !.clock = at,
                                !.next = @ + tick_interval_ms(pace.hz),
                                !.sent = @ + 1,
                                !.prev_send = pace.last_send,
                                !.last_send = Some(at)]
    /\ UNCHANGED notPace

\* line 343: socket.recv returns before the timeout; lines 364 and 287
PaceReply ==
    /\ pace.pc = "wait"
    /\ \E delay \in ReplyDelays :
           /\ delay < reply_timeout(pace.hz)
           /\ pace' = [pace EXCEPT !.pc = PaceAfter(pace.clock + delay, pace.sent),
                                   !.clock = @ + delay,
                                   !.waited = Some(delay)]
    /\ UNCHANGED notPace

\* line 361: no datagram within the timeout; lines 364 and 287
PaceTimeout ==
    /\ pace.pc = "wait"
    /\ LET delay == reply_timeout(pace.hz)
       IN  pace' = [pace EXCEPT !.pc = PaceAfter(pace.clock + delay, pace.sent),
                                !.clock = @ + delay,
                                !.waited = Some(delay)]
    /\ UNCHANGED notPace

PaceNext ==
    \/ PaceSend
    \/ PaceReply
    \/ PaceTimeout

SpecPace == PaceInit /\ [][PaceNext]_vars

\* C36: in each iteration of the UDP send loop the wait for the echo reply is
\* bounded by the shorter of 200 ms and the pacing interval, so a missing
\* reply never delays the next send beyond one pacing interval.
C36_ReplyWaitBounded ==
    /\ is_some(pace.waited)
       => unwrap(pace.waited) <= Min(200, tick_interval_ms(pace.hz))
    /\ is_some(pace.prev_send)
       => unwrap(pace.last_send) - unwrap(pace.prev_send) <= tick_interval_ms(pace.hz)

\* C37: while a receive loop is running, every firing of the 1 s bandwidth
\* sampler tick is eventually followed by a take_bandwidth_sample call, even
\* when packets are continuously available on the read path of the biased
\* select.  A call can follow only while the loop runs, so a loop does not
\* end with a tick that has fired and was not served, unless it ends in the
\* deadline branch, which takes the final sample.
C37_SamplerTickServed ==
    [][/\ spc \in {"select", "body", "urecv"}
       /\ spc' = "done"
       /\ now >= snext
       => sexit' = "deadline"]_vars

\* the stream offsets at which a frame of w begins, and the end of the stream
FrameBoundaries(w) ==
    {0} \cup {FrameStarts(w, 0)[i][1] + FrameStarts(w, 0)[i][2] : i \in 1..Len(w)}

\* C38: the TCP receive loop keeps frame alignment under every split of the
\* byte stream into partial reads and every interleaving with the sampler
\* tick and the deadline timer: each read of a length starts at the first
\* byte of a frame the sender wrote, each body read is the body of that
\* frame with the length the sender wrote, and the frames delivered so far
\* are the first frames of the stream, in send order, none skipped and none
\* delivered twice.
C38_FrameAlignment ==
    cfg.protocol = "Tcp" =>
        /\ spc = "select" => rpos \in FrameBoundaries(wire)
        /\ spc = "body" =>
               \E i \in 1..Len(wire) : FrameStarts(wire, 0)[i] = <<rpos, packet_len>>
        /\ Len(counted) <= Len(wire)
        /\ counted = SubSeq(FrameStarts(wire, 0), 1, Len(counted))

----------------------------------------------------------------------------
(* SpecOrder: udp_receive_loop fed the datagrams of one udp_send_loop in   *)
(* the order they were sent, none lost.  A run reaches the wrap of the     *)
(* sequence number only after 2^32 datagrams, so the specification picks   *)
(* the run up at states on its way: at its start, before 2^30, before      *)
(* 3 * 2^30, before the wrap, and 2^30 - 3 datagrams after the wrap.  Up   *)
(* to each of them every datagram was at or above the highest seen         *)
(* (before the wrap) or below u32::MAX / 4 with the highest at u32::MAX    *)
(* (after it), so no datagram was reported.  With overflow checks the      *)
(* loop panics on its second datagram: that build starts at the start of   *)
(* the run only.  The counters of the datagrams received before the first  *)
(* state are left out of sm (they are beyond the integers of the model);   *)
(* out_of_order_count and anomalies are those of the whole run.            *)

\* the number of datagrams that arrive after the first state
MaxOrderSteps == 4

\* the number of bandwidth samples taken after the first state
MaxOrderSamples == 2

\* config.tick_rate_hz of the run: at 20 kHz (the replies come within 50 us) the
\* sequence number wraps after 214748 s
OrderRate == 20000

\* config.test_duration_secs of the run: the send loop reaches sequence
\* 2^32 + 2^30 after 268436 s
OrderDuration == 268432

OrderCfg ==
    [Config("Udp", OrderDuration, [packet_size_bytes |-> 1, packet_size_range |-> None])
        EXCEPT !.tick_rate_hz = OrderRate]

\* <<highest_udp_seq_received, the sequence number of the next datagram,
\*   seconds since the start of the run>>
OrderStarts(b) ==
    {<<None, U32Zero, 0>>}
    \cup IF b = "release"
         THEN { <<Some(<<252, 255, 255, 63>>), <<253, 255, 255, 63>>, 53687>>,
                <<Some(<<254, 255, 255, 191>>), <<255, 255, 255, 191>>, 161061>>,
                <<Some(<<253, 255, 255, 255>>), <<254, 255, 255, 255>>, 214748>>,
                <<Some(<<255, 255, 255, 255>>), <<253, 255, 255, 63>>, 268435>> }
         ELSE {}

OrderInit ==
    /\ MetricsIdle
    /\ RunIdle
    /\ CodecIdle
    /\ SingleIdle
    /\ LockIdle
    /\ PaceIdle
    /\ cfg = OrderCfg
    /\ build \in Builds
    /\ \E s \in OrderStarts(build) :
          /\ highest = s[1]
          /\ cseq = s[2]
          /\ now = s[3]
          /\ sm = [RunStartMetrics(cfg, 0) EXCEPT
                      !.last_bandwidth_sample_time_ms =
                          IF s[3] = 0 THEN None ELSE Some(ElapsedMs(s[3], 0))]
    /\ snext = now + SampleSecs
    /\ cpc = "idle" /\ cstart = 0 /\ cnext = 0 /\ cm = NewMetrics /\ cres = <<>>
    /\ spc = "urecv" /\ sres = <<>> /\ sexit = "none"
    /\ rpos = 0 /\ packet_len = 0 /\ buf_len = 0 /\ buf_cap = 0 /\ counted = <<>>
    /\ wire = <<>> /\ avail = 0 /\ fin = FALSE /\ rst = FALSE
    /\ c2s = {} /\ s2c = {} /\ uerr = "none" /\ replies = 0

\* the next datagram of the send loop arrives, after the one before it was
\* received: lines 309-320 build it with the loop's sequence_number, line 364
\* moves the number on
OrderArrive ==
    /\ spc = "urecv"
    /\ c2s = {}
    /\ replies < MaxOrderSteps
    /\ \E size \in PacketSizeChoices(cfg), wall \in WallClocks :
          c2s' = {new_echo_request(cseq, size, wall)}
    /\ cseq' = wrapping_add_1(cseq)
    /\ UNCHANGED <<now, cfg, build, cpc, cstart, cnext, cm, cres, spc, sm, sres, sexit, snext,
                   s2c, highest, uerr, replies>>
    /\ UNCHANGED notUdp

\* a second passes while the receive loop has nothing to do
OrderTick ==
    /\ spc = "urecv"
    /\ ~DeadlineDue
    /\ c2s = {}
    /\ now < snext
    /\ Len(sm.bandwidth_samples) < MaxOrderSamples
    /\ now' = now + 1
    /\ UNCHANGED netVars
    /\ UNCHANGED notNet

OrderNext ==
    \/ OrderArrive
    \/ ServerUdpDeadline
    \/ ServerUdpRecv
    \/ ServerUdpSampler
    \/ OrderTick

SpecOrder == OrderInit /\ [][OrderNext]_vars

----------------------------------------------------------------------------
(* Properties of the aggregator's byte accounting (under SpecMetrics) *)

RECURSIVE SampledBytes(_)
\* the sum of bytes_in_interval over a list of bandwidth samples
SampledBytes(samples) ==
    IF samples = <<>> THEN 0 ELSE samples[1][2] + SampledBytes(Tail(samples))

\* C40: in every TestMetrics state reached through init_start_time,
\* record_packet_sent, record_packet_received, record_jitter_value and
\* take_bandwidth_sample in any order, bytes_received equals the sum of
\* bytes_in_interval over bandwidth_samples plus the partial accumulator
\* bytes_since_last_bandwidth_sample.
C40_BytesAccounted ==
    m.bytes_received = SampledBytes(m.bandwidth_samples) + m.bytes_since_last_bandwidth_sample

C40_Witness ==
    /\ Len(m.bandwidth_samples) = 2
    /\ m.bandwidth_samples[1][2] > 0
    /\ m.bytes_since_last_bandwidth_sample > 0
    /\ m.bytes_received = 128
    /\ C40_BytesAccounted

====
